---------------------------- MODULE Spec2Model ----------------------------
(***************************************************************************)
(* A model of the Amherst Ramblers display (the client-side renderer of    *)
(* src/unnamed/part_008, the later revision of src/display.js).            *)
(*                                                                         *)
(* The module holds several specifications over one set of variables:      *)
(*   SpecGames    the game helpers (isHomeGame, getOurScore, getTheirScore,*)
(*                didWeWin, isCompleted) applied to one raw game record;   *)
(*   SpecDisplay  the outcome surfaces of renderNextUp, renderRecap and    *)
(*                renderTicker over STATE.games;                           *)
(*   SpecRotation pickRotatingPlayers and its persisted rotation state;    *)
(*   Spec         fetchJson, loadAllData, the refresh cycle and the status *)
(*                indicator;                                               *)
(*   SpecStartup  init(): the first load, renderAll, the slideshow and the *)
(*                refresh interval;                                        *)
(*   SpecStars    computeThreeStars on a game and a roster;                *)
(*   SpecRecapStars  the three-stars block of renderRecap;                 *)
(*   SpecHelpers  the helpers and computeThreeStars on any raw record;     *)
(*   SpecStandings   renderStandings on the rows of a standings file;      *)
(*   SpecDivisions   updateDivisionMeta and renderStandings on one file;   *)
(*   SpecFaces    the players renderFaces offers to the spotlight;         *)
(*   SpecTicker   the item list of renderTicker;                           *)
(*   SpecPickLoop pickRotatingPlayers one loop iteration at a time, and    *)
(*                SpecPickLoopFair, the same with calls that run on;       *)
(*   SpecSlides   the slide timer and the refresh interval.                *)
(* Each specification leaves the variables of the others at their initial  *)
(* values.                                                                 *)
(*                                                                         *)
(* JavaScript values: `undefined` and `null` are the strings "undefined"   *)
(* and "null" where the code tells them apart, a boolean that may also be  *)
(* absent is "true" / "false", and a score that is null or undefined is    *)
(* Null (the code reads scores through `?? null` and `!= null`, which do   *)
(* not tell the two apart).                                                *)
(***************************************************************************)
EXTENDS Integers, Sequences, FiniteSets, TLC

VARIABLES
    game,        \* SpecGames: the raw game record under examination
    ret,         \* SpecGames: the last helper call and what it returned
    games,       \* SpecDisplay: STATE.games
    lastFive,    \* SpecDisplay: the rows of #lastFive
    heroLast,    \* SpecDisplay: the "Last Game" card of the season snapshot
    recap,       \* SpecDisplay: the badge and the sentence of the recap slide
    tickerLast,  \* SpecDisplay: the "Last Game" item of the ticker
    poolSize,    \* SpecRotation: the number of players in the rotation pool
    want,        \* SpecRotation: n, the number of picks asked for
    today,       \* SpecRotation: the calendar day
    rot,         \* SpecRotation: the rotation state kept in localStorage
    last,        \* SpecRotation: what the last pickRotatingPlayers call did
    dayCalls,    \* SpecRotation: the calls made today
    dayPicks,    \* SpecRotation: the players returned today, in order
    sinceWalk,   \* SpecRotation: per player, the calls since the walk chose it
    now,         \* Spec: Date.now(), in minutes
    cache,       \* Spec: the cache entries of localStorage, by cache key
    state,       \* Spec: the data fields of STATE
    dataError,   \* Spec: STATE.dataError
    loads,       \* Spec: the loadAllData calls in flight, oldest first
    started,     \* Spec: the number of loadAllData calls made so far
    refreshing,  \* Spec: init has registered the refresh interval
    statusText,  \* Spec: the text of #statusText
    view,        \* Spec: the data the last renderAll drew
    settled,     \* Spec: the loadAllData call that returned last
    boot,        \* SpecStartup: how far init() has come
    slideTimer,  \* SpecStartup: STATE.slideTimer
    args,        \* the arguments of the function under examination
    result       \* what the function made of them

gameVars == <<game, ret>>
displayVars == <<games, lastFive, heroLast, recap, tickerLast>>

rotVars == <<poolSize, want, today, rot, last, dayCalls, dayPicks, sinceWalk>>

loadVars == <<now, cache, state, dataError, loads, started, refreshing,
              statusText, view, settled>>

bootVars == <<boot, slideTimer>>

pureVars == <<args, result>>

vars == <<game, ret, games, lastFive, heroLast, recap, tickerLast,
          poolSize, want, today, rot, last, dayCalls, dayPicks, sinceWalk,
          now, cache, state, dataError, loads, started, refreshing,
          statusText, view, settled, boot, slideTimer, args, result>>

----------------------------------------------------------------------------
(* CONFIG and the raw game records                                         *)

\* CONFIG.team
Team == "amherst-ramblers"

\* A score that is null or undefined.
Null == -1

\* Largest score a record carries.
MaxScore == 1

Scores == {Null} \cup (0 .. MaxScore)

\* The raw game records.  result: "absent" (undefined or null), "falsy" (a
\* value such as 0 or "" that is != null but not truthy) or "obj" (an object,
\* whose fields are ramblers_score, opponent_score and won).  The remaining
\* fields are the legacy flat ones.
GameRecords ==
    [ result         : {"absent", "falsy", "obj"},
      ramblers_score : Scores,
      opponent_score : Scores,
      won            : {"undefined", "null", "true", "false"},
      home_game      : {"undefined", "true", "false"},
      home_team_slug : {"", Team},
      homeTeam_slug  : {"", Team},
      home_score     : Scores,
      away_score     : Scores,
      homeScore      : Scores,
      awayScore      : Scores ]

\* A record's result fields are read only when result is an object.
WellFormed(g) ==
    g.result # "obj" =>
        /\ g.ramblers_score = Null
        /\ g.opponent_score = Null
        /\ g.won = "undefined"

Bool(b) == IF b THEN "true" ELSE "false"

\* a ?? b on scores
Coalesce(a, b) == IF a # Null THEN a ELSE b

\* isHomeGame(game)
isHomeGame(g) ==
    IF g.home_game \in {"true", "false"}
    THEN g.home_game = "true"
    ELSE LET homeSlug == IF g.home_team_slug # "" THEN g.home_team_slug
                         ELSE g.homeTeam_slug
         IN  homeSlug = Team

\* getOurScore(game)
getOurScore(g) ==
    IF g.result = "obj" THEN g.ramblers_score
    ELSE IF isHomeGame(g) THEN Coalesce(g.home_score, g.homeScore)
    ELSE Coalesce(g.away_score, g.awayScore)

\* getTheirScore(game)
getTheirScore(g) ==
    IF g.result = "obj" THEN g.opponent_score
    ELSE IF isHomeGame(g) THEN Coalesce(g.away_score, g.awayScore)
    ELSE Coalesce(g.home_score, g.homeScore)

\* didWeWin(game): "true", "false" or "null"
didWeWin(g) ==
    IF g.result = "obj" /\ g.won # "undefined" THEN g.won
    ELSE LET ours   == getOurScore(g)
             theirs == getTheirScore(g)
         IN  IF ours = Null \/ theirs = Null THEN "null"
             ELSE Bool(ours > theirs)

\* isCompleted(game)
isCompleted(g) ==
    \/ g.result # "absent"
    \/ g.home_score # Null
    \/ g.homeScore # Null

----------------------------------------------------------------------------
(* SpecGames: the helpers applied to one record                            *)

NoCall == [fn |-> "none"]

\* Nothing rendered yet.
Blank == [shown |-> FALSE]

DisplayIdle ==
    /\ games = << >>
    /\ lastFive = << >>
    /\ heroLast = Blank
    /\ recap = Blank
    /\ tickerLast = Blank

\* localStorage holds no rotation state: loadRotation() returns {}.
NoRotation == [dayKey |-> 0, seen |-> << >>, i |-> 0]

NoPick == [called |-> FALSE]

RotationIdle ==
    /\ poolSize = 0
    /\ want = 0
    /\ today = 1
    /\ rot = NoRotation
    /\ last = NoPick
    /\ dayCalls = 0
    /\ dayPicks = << >>
    /\ sinceWalk = << >>

\* init() is not followed.
BootIdle ==
    /\ boot = "idle"
    /\ slideTimer = "null"

\* No function is under examination.
PureIdle ==
    /\ args = << >>
    /\ result = << >>

\* The page has not started loading.
LoadIdle ==
    /\ now = 0
    /\ cache = << >>
    /\ state = << >>
    /\ dataError = FALSE
    /\ loads = << >>
    /\ started = 0
    /\ refreshing = FALSE
    /\ statusText = ""
    /\ view = << >>
    /\ settled = [seq |-> 0]

InitGames ==
    /\ game \in {g \in GameRecords : WellFormed(g)}
    /\ ret = NoCall
    /\ DisplayIdle
    /\ RotationIdle
    /\ LoadIdle
    /\ BootIdle
    /\ PureIdle

CallIsHomeGame ==
    /\ ret = NoCall
    /\ ret' = [fn |-> "isHomeGame", val |-> Bool(isHomeGame(game))]
    /\ UNCHANGED <<game, displayVars, rotVars, loadVars, bootVars, pureVars>>

CallGetOurScore ==
    /\ ret = NoCall
    /\ ret' = [fn |-> "getOurScore", val |-> getOurScore(game)]
    /\ UNCHANGED <<game, displayVars, rotVars, loadVars, bootVars, pureVars>>

CallGetTheirScore ==
    /\ ret = NoCall
    /\ ret' = [fn |-> "getTheirScore", val |-> getTheirScore(game)]
    /\ UNCHANGED <<game, displayVars, rotVars, loadVars, bootVars, pureVars>>

CallDidWeWin ==
    /\ ret = NoCall
    /\ ret' = [fn |-> "didWeWin", val |-> didWeWin(game)]
    /\ UNCHANGED <<game, displayVars, rotVars, loadVars, bootVars, pureVars>>

CallIsCompleted ==
    /\ ret = NoCall
    /\ ret' = [fn |-> "isCompleted", val |-> Bool(isCompleted(game))]
    /\ UNCHANGED <<game, displayVars, rotVars, loadVars, bootVars, pureVars>>

NextGames ==
    \/ CallIsHomeGame
    \/ CallGetOurScore
    \/ CallGetTheirScore
    \/ CallDidWeWin
    \/ CallIsCompleted

SpecGames == InitGames /\ [][NextGames]_vars

----------------------------------------------------------------------------
(* C1: for every game record, didWeWin returns null if and only if at      *)
(* least one of our score / their score is null, and otherwise returns     *)
(* exactly (ourScore > theirScore), whatever `won` flag the record         *)
(* carries.                                                                *)
C1_DidWeWinFollowsScores ==
    ret.fn = "didWeWin" =>
        LET ours   == getOurScore(game)
            theirs == getTheirScore(game)
        IN  /\ (ret.val = "null") <=> (ours = Null \/ theirs = Null)
            /\ (ours # Null /\ theirs # Null) => ret.val = Bool(ours > theirs)

(* C3: for every game record, a game classified as completed has both our  *)
(* score and their score non-null integers >= 0.                           *)
C3_CompletedHasBothScores ==
    (ret.fn = "isCompleted" /\ ret.val = "true") =>
        /\ getOurScore(game) \in 0 .. MaxScore
        /\ getTheirScore(game) \in 0 .. MaxScore

----------------------------------------------------------------------------
(* SpecDisplay: the surfaces that present a game's outcome                 *)

\* Most games STATE.games holds.
MaxGames == 2

\* The records the display is fed: a game record and the day it was played.
\* A current-shape record names home_game and leaves the flat fields out; a
\* legacy record has no result and carries the flat snake_case fields.
CurrentShape(g) ==
    /\ g.home_game \in {"true", "false"}
    /\ g.home_team_slug = "" /\ g.homeTeam_slug = ""
    /\ g.home_score = Null /\ g.away_score = Null
    /\ g.homeScore = Null /\ g.awayScore = Null

LegacyShape(g) ==
    /\ g.result = "absent"
    /\ g.home_game = "undefined"
    /\ g.homeTeam_slug = ""
    /\ g.homeScore = Null /\ g.awayScore = Null

DatedGames ==
    { [g |-> g, date |-> d] :
        g \in {x \in GameRecords :
                 WellFormed(x) /\ (CurrentShape(x) \/ LegacyShape(x))},
        d \in 1 .. MaxGames }

GameLists == UNION { [1 .. k -> DatedGames] : k \in 0 .. MaxGames }

\* Insert e into a list kept most recent first, after the entries that are
\* not older than it (Array.prototype.sort is stable).
RECURSIVE InsertByDateDesc(_, _)
InsertByDateDesc(e, s) ==
    IF s = << >> THEN <<e>>
    ELSE IF Head(s).date >= e.date
         THEN <<Head(s)>> \o InsertByDateDesc(e, Tail(s))
    ELSE <<e>> \o s

\* arr.sort((a, b) => new Date(b.date) - new Date(a.date))
RECURSIVE SortByDateDesc(_)
SortByDateDesc(s) ==
    IF s = << >> THEN << >>
    ELSE LET n == Len(s)
         IN  InsertByDateDesc(s[n], SortByDateDesc(SubSeq(s, 1, n - 1)))

Completed(e) == isCompleted(e.g)
NotCompleted(e) == ~isCompleted(e.g)

\* The completed games, most recent first.
Past(gs) == SortByDateDesc(SelectSeq(gs, Completed))

\* The games not yet completed.
Future(gs) == SelectSeq(gs, NotCompleted)

\* arr.slice(0, k)
Take(s, k) == SubSeq(s, 1, IF Len(s) < k THEN Len(s) ELSE k)

\* The rows #lastFive shows.
LastFiveRows == 5

\* `won ? a : b`: null and false are both falsy
Truthy(w) == w = "true"

\* The badge of a #lastFive row: won ? 'good' : 'bad', won ? 'W' : 'L'.
LastFiveBadge(e) ==
    LET won == didWeWin(e.g)
    IN  [ game |-> e,
          cls  |-> IF Truthy(won) THEN "good" ELSE "bad",
          txt  |-> IF Truthy(won) THEN "W" ELSE "L" ]

\* The badge of the season snapshot's "Last Game" card.
HeroBadge(e) ==
    LET lastWon == didWeWin(e.g)
    IN  [ shown |-> TRUE,
          game  |-> e,
          cls   |-> IF lastWon = "null" THEN "warn"
                    ELSE IF Truthy(lastWon) THEN "good" ELSE "bad",
          txt   |-> IF lastWon = "null" THEN "-"
                    ELSE IF Truthy(lastWon) THEN "W" ELSE "L" ]

\* The badge and the generated sentence of the recap slide.
RecapOf(e) ==
    LET won == didWeWin(e.g)
    IN  [ shown |-> TRUE,
          game  |-> e,
          cls   |-> IF Truthy(won) THEN "good" ELSE "bad",
          txt   |-> IF Truthy(won) THEN "WIN" ELSE "LOSS",
          desc  |-> IF Truthy(won) THEN "defeated" ELSE "fell to" ]

\* The ticker's "Last Game" item.
TickerLastOf(e) ==
    LET won == didWeWin(e.g)
    IN  [ shown |-> TRUE,
          game  |-> e,
          txt   |-> IF Truthy(won) THEN "W" ELSE "L" ]

InitDisplay ==
    /\ game = CHOOSE g \in GameRecords : WellFormed(g)
    /\ ret = NoCall
    /\ games \in GameLists
    /\ lastFive = << >>
    /\ heroLast = Blank
    /\ recap = Blank
    /\ tickerLast = Blank
    /\ RotationIdle
    /\ LoadIdle
    /\ BootIdle
    /\ PureIdle

\* renderNextUp(): the season snapshot replaces the next-game hero when no
\* game is left to play; #lastFive lists the five most recent completed games.
renderNextUp ==
    LET past == Past(games)
    IN  /\ heroLast' = IF Future(games) = << >> /\ past # << >>
                       THEN HeroBadge(past[1]) ELSE Blank
        /\ lastFive' = [i \in 1 .. Len(Take(past, LastFiveRows)) |->
                           LastFiveBadge(past[i])]
        /\ UNCHANGED <<gameVars, rotVars, loadVars, bootVars, pureVars,
                     games, recap, tickerLast>>

\* renderRecap(): the most recent completed game.
renderRecap ==
    LET past == Past(games)
    IN  /\ recap' = IF past = << >> THEN Blank ELSE RecapOf(past[1])
        /\ UNCHANGED <<gameVars, rotVars, loadVars, bootVars, pureVars,
                     games, lastFive, heroLast, tickerLast>>

\* renderTicker(): the "Last Game" item.
renderTicker ==
    LET past == Past(games)
    IN  /\ tickerLast' = IF past = << >> THEN Blank ELSE TickerLastOf(past[1])
        /\ UNCHANGED <<gameVars, rotVars, loadVars, bootVars, pureVars,
                     games, lastFive, heroLast, recap>>

NextDisplay ==
    \/ renderNextUp
    \/ renderRecap
    \/ renderTicker

SpecDisplay == InitDisplay /\ [][NextDisplay]_vars

\* A surface presents the game as a loss.
ShowsLoss(b) == b.txt \in {"L", "LOSS"}

(* C2: whenever didWeWin yields null for a game the display shows, every   *)
(* surface presenting that game's outcome (the last-five badges, the recap *)
(* badge and sentence, the ticker's "Last Game" item, the snapshot card)   *)
(* presents a neutral state; the game is never presented as a loss.        *)
C2_UnknownOutcomeShownNeutral ==
    /\ \A i \in 1 .. Len(lastFive) :
           didWeWin(lastFive[i].game.g) = "null" => ~ShowsLoss(lastFive[i])
    /\ (heroLast.shown /\ didWeWin(heroLast.game.g) = "null")
           => ~ShowsLoss(heroLast)
    /\ (recap.shown /\ didWeWin(recap.game.g) = "null")
           => (~ShowsLoss(recap) /\ recap.desc # "fell to")
    /\ (tickerLast.shown /\ didWeWin(tickerLast.game.g) = "null")
           => ~ShowsLoss(tickerLast)

----------------------------------------------------------------------------
(* SpecRotation: pickRotatingPlayers and the persisted rotation state      *)

\* Largest rotation pool, largest n, last day and most calls on one day.
MaxPool == 5
MaxWant == 2
MaxDay == 2
MaxCallsPerDay == 4

\* The players of the pool, as the roster lists them.  Points tie in pairs
\* and the names (their alphabetical rank) break the tie.
Player(k) ==
    [ player_id |-> k,
      name      |-> MaxPool + 1 - k,
      points    |-> k \div 2,
      number    |-> k,
      position  |-> IF k = 1 THEN "G" ELSE "F" ]

Pool(P) == [k \in 1 .. P |-> Player(k)]

\* `${p.player_id || p.id || p.name}|${p.number || p.num || ''}|${p.position || p.pos || ''}`
KeyOf(p) == <<p.player_id, p.number, p.position>>

\* The comparator of the sort: points descending, then name.
Before(a, b) ==
    \/ a.points > b.points
    \/ a.points = b.points /\ a.name < b.name

RECURSIVE InsertSorted(_, _)
InsertSorted(e, s) ==
    IF s = << >> THEN <<e>>
    ELSE IF Before(e, Head(s)) THEN <<e>> \o s
    ELSE <<Head(s)>> \o InsertSorted(e, Tail(s))

\* [...players].sort(...)
RECURSIVE SortPlayers(_)
SortPlayers(s) ==
    IF s = << >> THEN << >>
    ELSE LET n == Len(s)
         IN  InsertSorted(s[n], SortPlayers(SubSeq(s, 1, n - 1)))

\* seq.includes(x)
Includes(s, x) == \E j \in 1 .. Len(s) : s[j] = x

Range(s) == {s[j] : j \in 1 .. Len(s)}

\* seen.length > sorted.length * 0.75
OverThreeQuarters(len, P) == 4 * len > 3 * P

\* Math.floor(sorted.length * 0.25)
QuarterOf(P) == P \div 4

\* seen.splice(0, k)
DropOldest(s, k) == SubSeq(s, (IF k < Len(s) THEN k ELSE Len(s)) + 1, Len(s))

\* The trim at the end of a loop iteration.
Trim(seen, P) ==
    IF OverThreeQuarters(Len(seen), P) THEN DropOldest(seen, QuarterOf(P))
    ELSE seen

\* The circular walk: at most 2 * sorted.length iterations, until n picks.
RECURSIVE Walk(_, _, _, _, _, _)
Walk(sorted, n, i, seen, picks, loops) ==
    IF loops >= 2 * Len(sorted) \/ Len(picks) >= n
    THEN [i |-> i, seen |-> seen, picks |-> picks, loops |-> loops]
    ELSE LET p   == sorted[(i % Len(sorted)) + 1]
             key == KeyOf(p)
             hit == ~Includes(seen, key)
         IN  Walk(sorted, n, i + 1,
                  Trim(IF hit THEN Append(seen, key) ELSE seen, Len(sorted)),
                  IF hit THEN Append(picks, p) ELSE picks,
                  loops + 1)

\* The padding loop: every list it can end with, Math.random() choosing.
RECURSIVE Pad(_, _, _)
Pad(sorted, n, picks) ==
    IF Len(picks) >= n THEN {picks}
    ELSE IF Len(picks) >= Len(sorted)
         THEN {picks} \cup
              {Append(picks, p) : p \in Range(sorted) \ Range(picks)}
    ELSE UNION { IF Len(picks) + 1 >= Len(sorted)
                 THEN {Append(picks, p)}
                 ELSE Pad(sorted, n, Append(picks, p))
                 : p \in Range(sorted) \ Range(picks) }

\* The day the walk starts from: a new calendar day resets st.i (and st.seen,
\* but `seen` was bound to the stored list before the reset, and the walk and
\* the save use `seen`).
DayReset(st, day) == st.dayKey # day
StartCursor(st, day) == IF DayReset(st, day) THEN 0 ELSE st.i
StartSeen(st, day) == st.seen

CeilDiv(a, b) == (a + b - 1) \div b

Capped(x, cap) == IF x > cap THEN cap ELSE x

\* sinceWalk saturates here.
DryCap == 2 * MaxPool + 2

InitRotation ==
    /\ game = CHOOSE g \in GameRecords : WellFormed(g)
    /\ ret = NoCall
    /\ DisplayIdle
    /\ LoadIdle
    /\ BootIdle
    /\ PureIdle
    /\ poolSize \in 1 .. MaxPool
    /\ want \in 1 .. MaxWant
    /\ today = 1
    /\ rot = NoRotation
    /\ last = NoPick
    /\ dayCalls = 0
    /\ dayPicks = << >>
    /\ sinceWalk = [k \in 1 .. poolSize |-> 0]

\* pickRotatingPlayers(players, n) on the pool, one call.
pickRotatingPlayers ==
    /\ dayCalls < MaxCallsPerDay
    /\ LET sorted == SortPlayers(Pool(poolSize))
           w      == Walk(sorted, want, StartCursor(rot, today),
                          StartSeen(rot, today), << >>, 0)
       IN  /\ rot' = [dayKey |-> today, seen |-> w.seen, i |-> w.i]
           /\ \E padded \in Pad(sorted, want, w.picks) :
                 LET out == Take(padded, want)
                 IN  /\ last' = [ called |-> TRUE,
                                  reset  |-> DayReset(rot, today),
                                  before |-> rot,
                                  walked |-> w.picks,
                                  loops  |-> w.loops,
                                  picks  |-> out ]
                     /\ dayPicks' =
                            IF dayCalls < CeilDiv(poolSize, want)
                            THEN dayPicks \o out ELSE dayPicks
           /\ sinceWalk' =
                  [k \in 1 .. poolSize |->
                      IF Player(k) \in Range(w.picks) THEN 0
                      ELSE Capped(sinceWalk[k] + 1, DryCap)]
    /\ dayCalls' = dayCalls + 1
    /\ UNCHANGED <<gameVars, displayVars, loadVars, bootVars, pureVars,
                 poolSize, want, today>>

\* Midnight passes: new Date().toLocaleDateString('en-CA') changes.
NextDay ==
    /\ today < MaxDay
    /\ today' = today + 1
    /\ dayCalls' = 0
    /\ dayPicks' = << >>
    /\ UNCHANGED <<gameVars, displayVars, loadVars, bootVars, pureVars,
                 poolSize, want, rot, last, sinceWalk>>

NextRotation ==
    \/ pickRotatingPlayers
    \/ NextDay

SpecRotation == InitRotation /\ [][NextRotation]_vars

\* The players in the order the walk visits them.
Sorted == SortPlayers(Pool(poolSize))

(* C4: on the first pickRotating call whose calendar day differs from the  *)
(* persisted dayKey, recentlySeen is reset to empty and the cursor to 0     *)
(* before any player is selected: no key recorded on an earlier day makes   *)
(* the walk skip a player in that call, and none remains in the rotation    *)
(* state the call persists.                                                 *)
C4_NewDayForgetsSeen ==
    (last.called /\ last.reset) =>
        /\ \A j \in 1 .. Len(last.walked) :
               j <= poolSize => last.walked[j] = Sorted[j]
        /\ Len(last.walked) >= 1
        /\ \A j \in 1 .. Len(rot.seen) :
               \E m \in 1 .. Len(last.walked) :
                   rot.seen[j] = KeyOf(last.walked[m])

\* No entry of s repeats an earlier one before every pool member occurred.
NoRepeatBeforeAll(s) ==
    \A k \in 1 .. Len(s) :
        (\E j \in 1 .. k - 1 : s[j] = s[k]) =>
            Range(Sorted) \subseteq {s[j] : j \in 1 .. k - 1}

(* C5: for an unchanged pool of size P >= n, the first ceil(P/n) calls of   *)
(* pickRotating on one day return each pool member at least once before    *)
(* any member is returned a second time.                                    *)
C5_FullCycleBeforeRepeat ==
    poolSize >= want => NoRepeatBeforeAll(dayPicks)

\* The calls within which a rotation through the whole pool comes back to a
\* player: a full cycle of ceil(P/n) calls, twice over.
ReselectBound == 2 * CeilDiv(poolSize, want)

(* C6: for every pool size P >= 1, the trimming of recentlySeen makes every *)
(* pool member eligible again: after any sequence of calls on an unchanged  *)
(* pool, the circular walk itself (not the random padding) selects every    *)
(* member again within a bounded number of further calls.                   *)
C6_WalkReselectsEveryMember ==
    \A k \in 1 .. poolSize : sinceWalk[k] <= ReselectBound

----------------------------------------------------------------------------
(* fetchJson, loadAllData, the refresh cycle and the status indicator      *)
(*                                                                         *)
(* Time is in minutes. A JavaScript value is [shape, ver]: shape tells an  *)
(* array from an object that holds the array under the key the reader      *)
(* looks for ("wrapped"), from an object without that key ("object"), from *)
(* null and from undefined; ver tells one content from another (0: none).  *)
(* A payload came out of resp.json(), so JSON.stringify followed by        *)
(* JSON.parse gives it back unchanged, and the cache holds it as it is.    *)
(*                                                                         *)
(* loadAllData issues six fetches, each settled and assigned on its own.   *)
(* The model follows two of them, one for each kind of assignment: games   *)
(* (the array under the expected key or the value itself, [] when that is  *)
(* no array; roster and schedule are unwrapped alike, teams without the    *)
(* array test) and standings (the value as it is; leagueStats is assigned  *)
(* alike).                                                                 *)
(***************************************************************************)

\* CONFIG.staleOK: 30 * 60 * 1000 ms
StaleOK == 30

\* CONFIG.refreshInterval: 5 * 60 * 1000 ms
RefreshInterval == 5

\* The refresh intervals a session is followed for.
MaxTicks == 2

\* The loadAllData calls in flight at one time.
MaxLoads == 2

\* The contents the server serves.
MaxVer == 2

Undefined == [shape |-> "undefined", ver |-> 0]
NullValue == [shape |-> "null", ver |-> 0]
EmptyArray == [shape |-> "array", ver |-> 0]

Fields == {"games", "standings"}

\* What resp.json() may give for a field: the games file as an object that
\* holds the array, as the array itself and as an object without it; the
\* standings file as an object.
Shapes(f) ==
    IF f = "games" THEN {"wrapped", "array", "object"} ELSE {"object"}

Payloads(f) == [shape : Shapes(f), ver : 1 .. MaxVer]

TeamChars ==
    <<"a", "m", "h", "e", "r", "s", "t", "-",
      "r", "a", "m", "b", "l", "e", "r", "s">>

DotJson == <<".", "j", "s", "o", "n">>

\* The path loadAllData fetches a field from.
PathOf(f) ==
    CASE f = "games" -> <<"g", "a", "m", "e", "s", "/">> \o TeamChars \o DotJson
      [] f = "standings" ->
            <<"s", "t", "a", "n", "d", "i", "n", "g", "s", "_", "m", "h", "l">>
                \o DotJson

Alnum ==
    {"a", "b", "c", "d", "e", "f", "g", "h", "i", "j", "k", "l", "m",
     "n", "o", "p", "q", "r", "s", "t", "u", "v", "w", "x", "y", "z",
     "0", "1", "2", "3", "4", "5", "6", "7", "8", "9"}

\* 'cache_' + path.replace(/[^a-z0-9]/gi, '_')
cacheKey(path) ==
    <<"c", "a", "c", "h", "e", "_">> \o
        [j \in 1 .. Len(path) |-> IF path[j] \in Alnum THEN path[j] ELSE "_"]

\* The cache key of every path loadAllData fetches.
KeyOfPath == [path \in {PathOf(f) : f \in Fields} |-> cacheKey(path)]

CacheKeys == {KeyOfPath[PathOf(f)] : f \in Fields}

\* localStorage.getItem(cacheKey) gave null.
NoEntry == [present |-> FALSE, ts |-> 0, data |-> Undefined]

Entry(ts, data) == [present |-> TRUE, ts |-> ts, data |-> data]

\* The session starts this long after an earlier session cached its data.
SessionStart == StaleOK - RefreshInterval

\* What an earlier session left in the cache for a field.
PriorEntry(f) ==
    Entry(0, [shape |-> IF f = "games" THEN "wrapped" ELSE "object", ver |-> 1])

\* The cache an earlier session left when it cached the fields of had.
PriorCache(had) ==
    [key \in CacheKeys |->
        LET f == CHOOSE g \in Fields : KeyOfPath[PathOf(g)] = key
        IN  IF f \in had THEN PriorEntry(f) ELSE NoEntry]

\* age < CONFIG.staleOK, "inclusive" read as age <= CONFIG.staleOK
FreshInclusive(entry) == now - entry.ts <= StaleOK

\* age < CONFIG.staleOK
Fresh(entry) == now - entry.ts < StaleOK

\* fetchJson(path), resumed when the network answered: net is "ok" when
\* fetch resolved with resp.ok and resp.json() parsed, "fail" otherwise;
\* storeOk tells whether localStorage.setItem went through. The result is
\* how the promise settles and the cache it leaves.
fetchJson(path, net, payload, storeOk) ==
    LET key == KeyOfPath[path]
        cached == cache[key]
    IN  IF net = "ok"
        THEN [ status |-> "fulfilled",
               value  |-> payload,
               cache  |-> IF storeOk
                          THEN [cache EXCEPT ![key] = Entry(now, payload)]
                          ELSE cache ]
        ELSE IF cached.present /\ Fresh(cached)
             THEN [status |-> "fulfilled", value |-> cached.data, cache |-> cache]
             ELSE [status |-> "rejected", value |-> Undefined, cache |-> cache]

\* value?.key, where key is the key the reader looks for
Get(value) ==
    IF value.shape = "wrapped"
    THEN [shape |-> "array", ver |-> value.ver]
    ELSE Undefined

\* a || b: null and undefined are falsy, arrays and objects are truthy
Or(a, b) == IF a.shape \in {"undefined", "null"} THEN b ELSE a

IsArray(v) == v.shape = "array"

\* What loadAllData makes of the value of a fulfilled fetch.
Extract(f, value) ==
    CASE f = "games" ->
            LET g == Or(Get(value), value)
            IN  IF IsArray(g) THEN g ELSE EmptyArray
      [] f = "standings" -> value

\* STATE as the script declares it.
InitialState ==
    [f \in Fields |-> IF f = "standings" THEN NullValue ELSE EmptyArray]

\* A fetch that has not settled. Of a settled fetch the load keeps how the
\* promise settled (status, value) and, for the statements about it, what
\* happened: how the network answered (net), what resp.json() gave (got) and
\* whether a failed fetch found a cache entry younger than the ceiling
\* (usable).
Pending ==
    [ status |-> "pending", value |-> Undefined,
      net |-> "none", got |-> Undefined, usable |-> FALSE ]

\* loadAllData() up to its await.
NewLoad(seq) == [seq |-> seq, res |-> [f \in Fields |-> Pending]]

\* The assignment skipped for a rejected fetch, read as one that clears.
AssignedOrCleared(l, f) ==
    IF l.res[f].status = "fulfilled"
    THEN Extract(f, l.res[f].value)
    ELSE InitialState[f]

\* The assignment guarded by a request token: a call that returns after a
\* later call has returned assigns nothing.
AssignedIfNewest(l, f) ==
    IF l.res[f].status = "fulfilled" /\ l.seq > settled.seq
    THEN Extract(f, l.res[f].value)
    ELSE state[f]

\* if (res.status === 'fulfilled') STATE.f = ...
Assigned(l, f) ==
    IF l.res[f].status = "fulfilled"
    THEN Extract(f, l.res[f].value)
    ELSE state[f]

\* results.some(r => r.status === 'rejected')
SomeRejected(res) == \E f \in Fields : res[f].status = "rejected"

\* results.every(r => r.status === 'rejected')
EveryRejected(res) == \A f \in Fields : res[f].status = "rejected"

Unavailable == "Data unavailable - using cached data"

\* updateStatus(), the page holding #statusText: an array of games that is
\* not empty holds a game to play.
StatusOf(err, st) ==
    IF err THEN Unavailable
    ELSE IF st["games"] = EmptyArray THEN "Season complete"
    ELSE "Next"

NotDrawn == [drawn |-> FALSE, data |-> InitialState]

NoneSettled ==
    [seq |-> 0, res |-> [f \in Fields |-> Pending], late |-> FALSE]

\* How the network answers the fetch of a field.
Answers(f) ==
    [net : {"ok"}, payload : Payloads(f), storeOk : BOOLEAN]
        \cup {[net |-> "fail", payload |-> Undefined, storeOk |-> FALSE]}

\* The last reading of the clock the model follows.
LastTick == SessionStart + MaxTicks * RefreshInterval

\* The script has run init() up to `await loadAllData()`.
Init ==
    /\ game = CHOOSE g \in GameRecords : WellFormed(g)
    /\ ret = NoCall
    /\ DisplayIdle
    /\ RotationIdle
    /\ BootIdle
    /\ PureIdle
    /\ now = SessionStart
    /\ \E had \in SUBSET Fields : cache = PriorCache(had)
    /\ state = InitialState
    /\ dataError = FALSE
    /\ loads = <<NewLoad(1)>>
    /\ started = 1
    /\ refreshing = FALSE
    /\ statusText = ""
    /\ view = NotDrawn
    /\ settled = NoneSettled

\* The load k with the fetch of field f settled as fetchJson settles it.
Settled(k, f, a) ==
    LET r == fetchJson(PathOf(f), a.net, a.payload, a.storeOk)
        cached == cache[KeyOfPath[PathOf(f)]]
    IN  [loads[k] EXCEPT
            !.res[f] =
                [ status |-> r.status, value |-> r.value,
                  net |-> a.net, got |-> a.payload,
                  usable |-> /\ a.net = "fail"
                             /\ cached.present
                             /\ now - cached.ts < StaleOK ]]

Others(k, f) == {g \in Fields \ {f} : loads[k].res[g].status = "pending"}

Remove(s, k) == SubSeq(s, 1, k - 1) \o SubSeq(s, k + 1, Len(s))

\* One fetch of a load settles while others of the load are in flight.
FetchJsonSettles(k, f) ==
    \E a \in Answers(f) :
        /\ loads[k].res[f].status = "pending"
        /\ Others(k, f) # {}
        /\ cache' = fetchJson(PathOf(f), a.net, a.payload, a.storeOk).cache
        /\ loads' = [loads EXCEPT ![k] = Settled(k, f, a)]
        /\ UNCHANGED <<gameVars, displayVars, rotVars, bootVars, pureVars,
                       now, state, dataError,
                       started, refreshing, statusText, view, settled>>

\* The last fetch of a load settles: Promise.allSettled resolves, loadAllData
\* assigns and returns, and its caller (init, or the interval callback) goes
\* on to renderAll() in the same turn of the event loop; init then registers
\* the refresh interval.
LoadAllDataReturns(k, f) ==
    \E a \in Answers(f) :
        LET l == Settled(k, f, a)
            after == [g \in Fields |-> Assigned(l, g)]
            err == EveryRejected(l.res)
        IN  /\ loads[k].res[f].status = "pending"
            /\ Others(k, f) = {}
            /\ cache' = fetchJson(PathOf(f), a.net, a.payload, a.storeOk).cache
            /\ loads' = Remove(loads, k)
            /\ state' = after
            /\ dataError' = err
            /\ statusText' = StatusOf(err, after)
            /\ view' = [drawn |-> TRUE, data |-> after]
            /\ refreshing' = TRUE
            /\ settled' = [seq |-> l.seq, res |-> l.res,
                           late |-> settled.seq > l.seq]
            /\ UNCHANGED <<gameVars, displayVars, rotVars, bootVars, pureVars,
                       now, started>>

\* Five minutes pass while init still awaits its loadAllData.
Wait ==
    /\ ~refreshing
    /\ now + RefreshInterval <= LastTick
    /\ now' = now + RefreshInterval
    /\ UNCHANGED <<gameVars, displayVars, rotVars, bootVars, pureVars,
                       cache, state, dataError,
                   loads, started, refreshing, statusText, view, settled>>

\* The refresh interval fires and its callback calls loadAllData(). The
\* model follows the runs that have at most MaxLoads calls in flight.
Refresh ==
    /\ refreshing
    /\ now + RefreshInterval <= LastTick
    /\ Len(loads) < MaxLoads
    /\ now' = now + RefreshInterval
    /\ started' = started + 1
    /\ loads' = Append(loads, NewLoad(started + 1))
    /\ UNCHANGED <<gameVars, displayVars, rotVars, bootVars, pureVars,
                       cache, state, dataError,
                   refreshing, statusText, view, settled>>

Next ==
    \/ \E k \in 1 .. Len(loads) : \E f \in Fields : FetchJsonSettles(k, f)
    \/ \E k \in 1 .. Len(loads) : \E f \in Fields : LoadAllDataReturns(k, f)
    \/ Wait
    \/ Refresh

Spec == Init /\ [][Next]_vars

\* The fetch of field f made by the loadAllData call seq, in flight or in the
\* call that returned last.
ResOf(seq, f) ==
    IF \E k \in 1 .. Len(loads) : loads[k].seq = seq
    THEN loads[CHOOSE k \in 1 .. Len(loads) : loads[k].seq = seq].res[f]
    ELSE IF settled.seq = seq THEN settled.res[f]
    ELSE Pending

\* The caching contract of one fetchJson call that settles in this step;
\* always tells whether a successful fetch has to leave its payload cached.
Contract(seq, f, always) ==
    LET r == ResOf(seq, f)'
        key == cacheKey(PathOf(f))
        old == cache[key]
        usable == old.present /\ now - old.ts < StaleOK
    IN  (ResOf(seq, f).status = "pending" /\ r.status # "pending") =>
            /\ \A other \in CacheKeys \ {key} : cache'[other] = cache[other]
            /\ r.net = "ok" =>
                   /\ r.status = "fulfilled"
                   /\ r.value = r.got
                   /\ \/ cache'[key] = Entry(now, r.got)
                      \/ ~always /\ cache'[key] = old
            /\ r.net = "fail" =>
                   /\ cache'[key] = old
                   /\ usable => r.status = "fulfilled" /\ r.value = old.data
                   /\ ~usable => r.status = "rejected"

(* C7, as amended: a successful fetch returns the payload and overwrites    *)
(* the cache entry of its path with {current timestamp, payload}, or leaves *)
(* the entry as it was when localStorage refuses the write; a failed fetch  *)
(* returns the cached payload if and only if an entry of that path exists   *)
(* with now - timestamp < staleness ceiling, and otherwise fails; no fetch  *)
(* touches the entry of another path.                                       *)
C7_FetchCachesWhenStorageAllows ==
    [][\A seq \in 1 .. started : \A f \in Fields : Contract(seq, f, FALSE)]_vars

(* C7, as claimed: every successful fetch overwrites the cache entry of its *)
(* path with {current timestamp, payload}.                                  *)
C7_FetchAlwaysCaches ==
    [][\A seq \in 1 .. started : \A f \in Fields : Contract(seq, f, TRUE)]_vars

\* A fetch succeeded and the cache has no entry for its path, and another
\* fetch failed and was answered from the cache.
C7_Witness ==
    \E seq \in 1 .. started : \E f, g \in Fields :
        /\ ResOf(seq, f).net = "ok"
        /\ ~cache[cacheKey(PathOf(f))].present
        /\ ResOf(seq, g).net = "fail"
        /\ ResOf(seq, g).status = "fulfilled"
        /\ ResOf(seq, g).value = cache[cacheKey(PathOf(g))].data

(* C8: in a batched load no failed fetch cancels or fails another: when the *)
(* batch has settled, every field whose fetch was fulfilled holds what      *)
(* loadAllData unwraps from the value of that fetch (the payload just       *)
(* fetched when the network answered), and every field whose fetch was      *)
(* rejected keeps the value it had.                                         *)
C8_SettledLoadAssignsPerFetch ==
    [][settled'.seq # settled.seq =>
          \A f \in Fields :
              LET r == settled'.res[f]
              IN  /\ r.status \in {"fulfilled", "rejected"}
                  /\ r.net = "ok" =>
                         /\ r.status = "fulfilled"
                         /\ state'[f] = Extract(f, r.got)
                  /\ r.status = "fulfilled" => state'[f] = Extract(f, r.value)
                  /\ r.status = "rejected" => state'[f] = state[f]]_vars

\* A load returned with one fetch fulfilled by the network and the other
\* rejected; the field of the first holds the new payload and the field of
\* the second still holds data of an earlier load.
C8_Witness ==
    \E f, g \in Fields :
        /\ settled.res[f].net = "ok"
        /\ state[f] = Extract(f, settled.res[f].got)
        /\ settled.res[g].status = "rejected"
        /\ state[g] # InitialState[g]

(* C9: whichever of two overlapping refresh cycles was started first, the   *)
(* state holds the data of the batch that completed last, and so does the   *)
(* render that follows it.                                                  *)
C9_LastCompletedBatchWins ==
    settled.seq > 0 =>
        /\ \A f \in Fields :
               settled.res[f].status = "fulfilled" =>
                   state[f] = Extract(f, settled.res[f].value)
        /\ view = [drawn |-> TRUE, data |-> state]

\* The batch that returned last was started before one that had returned
\* already, and a field shows its payload where the cache holds another.
C9_Witness ==
    /\ settled.late
    /\ \E f \in Fields :
           LET entry == cache[cacheKey(PathOf(f))]
           IN  /\ settled.res[f].net = "ok"
               /\ state[f] = Extract(f, settled.res[f].got)
               /\ entry.present
               /\ Extract(f, entry.data) # state[f]
               /\ view.data[f] = state[f]

(* C10: a load leaves the data-unavailable flag set if and only if every    *)
(* fetch of it failed without a usable cache entry; while the flag is set   *)
(* the status indicator reads "Data unavailable"; and the flag is cleared   *)
(* only by the return of a load of which at least one fetch was fulfilled.  *)
C10_DataUnavailableFlag ==
    [][/\ settled'.seq # settled.seq =>
              (dataError' <=>
                  \A f \in Fields :
                      settled'.res[f].net = "fail" /\ ~settled'.res[f].usable)
       /\ dataError' => statusText' = Unavailable
       /\ (dataError /\ ~dataError') =>
              /\ settled'.seq # settled.seq
              /\ \E f \in Fields : settled'.res[f].status = "fulfilled"]_vars

\* The flag is up and the indicator shows it while a later load is in flight
\* of which one fetch is fulfilled already.
C10_Witness ==
    /\ dataError
    /\ statusText = Unavailable
    /\ \E k \in 1 .. Len(loads) : \E f \in Fields :
           loads[k].res[f].status = "fulfilled"

----------------------------------------------------------------------------
(* init(): startup under every outcome of the fetches                      *)
(*                                                                         *)
(* SpecStartup follows init() from its `await loadAllData()` on, over the  *)
(* fields teams, games and standings, and takes the page to hold the       *)
(* elements the renderers look up. The games array of content 1 holds a    *)
(* game to play in the current shape (with an `opponent` object), that of  *)
(* any other content a game to play in the legacy shape; a standings       *)
(* object of shape "wrapped" holds the `rows` array.                       *)
(***************************************************************************)

StartFields == {"teams", "games", "standings"}

\* teamsRes.value?.teams || teamsRes.value || []
ExtractTeams(value) == Or(Or(Get(value), value), EmptyArray)

\* What loadAllData makes of the value of a fulfilled fetch, teams included.
ExtractAny(f, value) ==
    IF f = "teams" THEN ExtractTeams(value) ELSE Extract(f, value)

\* STATE as the script declares it, teams included.
StartState ==
    [f \in StartFields |-> IF f = "standings" THEN NullValue ELSE EmptyArray]

Rejected == [status |-> "rejected", value |-> Undefined]

\* How fetchJson may settle for a field at startup: rejected, or fulfilled
\* with a JSON value.
StartResults(f) ==
    {Rejected} \cup
    [ status : {"fulfilled"},
      value : CASE f = "teams" ->
                     [shape : {"wrapped", "array", "object"}, ver : {1}]
                         \cup {NullValue}
                [] f = "games" ->
                     [shape : {"wrapped", "array", "object"}, ver : 1 .. MaxVer]
                [] f = "standings" ->
                     [shape : {"wrapped", "object"}, ver : {1}] ]

\* getOpponent(next) of updateStatus reads game.opponent and then calls
\* (STATE.teams || []).find: a TypeError when STATE.teams is an object that
\* is no array.
GetOpponentThrows(st) ==
    /\ st["games"].shape = "array"
    /\ st["games"].ver = 1
    /\ ~IsArray(st["teams"])

\* updateStatus() returns before it looks at the games when dataError is set.
UpdateStatusThrows(err, st) == ~err /\ GetOpponentThrows(st)

InitStartup ==
    /\ game = CHOOSE g \in GameRecords : WellFormed(g)
    /\ ret = NoCall
    /\ DisplayIdle
    /\ RotationIdle
    /\ PureIdle
    /\ now = 0
    /\ cache = << >>
    /\ state = StartState
    /\ dataError = FALSE
    /\ loads = << >>
    /\ started = 1
    /\ refreshing = FALSE
    /\ statusText = ""
    /\ view = [drawn |-> FALSE, data |-> StartState]
    /\ settled = [seq |-> 0]
    /\ boot = "loadAllData"
    /\ slideTimer = "null"

\* await loadAllData(): the six fetches have settled and the fields of the
\* fulfilled ones are assigned.
initLoadAllData ==
    \E res \in [StartFields -> UNION {StartResults(f) : f \in StartFields}] :
        /\ boot = "loadAllData"
        /\ \A f \in StartFields : res[f] \in StartResults(f)
        /\ state' = [f \in StartFields |->
                        IF res[f].status = "fulfilled"
                        THEN ExtractAny(f, res[f].value)
                        ELSE state[f]]
        /\ dataError' = \A f \in StartFields : res[f].status = "rejected"
        /\ boot' = "renderAll"
        /\ UNCHANGED <<gameVars, displayVars, rotVars, pureVars, now, cache,
                       loads, started, refreshing, statusText, view, settled,
                       slideTimer>>

\* renderAll(): updateStatus() comes first; an exception it throws leaves
\* init() rejected, with nothing after it run.
initRenderAll ==
    /\ boot = "renderAll"
    /\ IF UpdateStatusThrows(dataError, state)
       THEN /\ boot' = "failed"
            /\ UNCHANGED <<statusText, view>>
       ELSE /\ boot' = "startSlideshow"
            /\ statusText' = StatusOf(dataError, state)
            /\ view' = [drawn |-> TRUE, data |-> state]
    /\ UNCHANGED <<gameVars, displayVars, rotVars, pureVars, now, cache,
                   state, dataError, loads, started, refreshing, settled,
                   slideTimer>>

\* startSlideshow(): showSlide(0) arms the slide timer.
initStartSlideshow ==
    /\ boot = "startSlideshow"
    /\ slideTimer' = "armed"
    /\ boot' = "setInterval"
    /\ UNCHANGED <<gameVars, displayVars, rotVars, pureVars, loadVars>>

\* setInterval(..., CONFIG.refreshInterval)
initSetInterval ==
    /\ boot = "setInterval"
    /\ refreshing' = TRUE
    /\ boot' = "done"
    /\ UNCHANGED <<gameVars, displayVars, rotVars, pureVars, now, cache,
                   state, dataError, loads, started, statusText, view,
                   settled, slideTimer>>

NextStartup ==
    \/ initLoadAllData
    \/ initRenderAll
    \/ initStartSlideshow
    \/ initSetInterval

SpecStartup == InitStartup /\ [][NextStartup]_vars

(* C11: no outcome of the fetches makes rendering fail hard: whatever each  *)
(* fetch gave (a failure, or any JSON payload, an object without the        *)
(* expected list included), init() gets through the render pass, the start  *)
(* of the slide rotation and the installation of the refresh; it never      *)
(* stops short on an exception.                                             *)
C11_StartupNeverFails == boot # "failed"

----------------------------------------------------------------------------
(* computeThreeStars: the ranking of one game's performers                 *)
(*                                                                         *)
(* SpecStars applies computeThreeStars to a game whose player_stats hold   *)
(* up to MaxStats entries of the shape the scraper writes (skaters with    *)
(* goals and assists, goalies with saves, shots_against and goals_against) *)
(* and to a roster that names the same players. An id is a number with or  *)
(* without the league prefix; the entries are listed in the order          *)
(* Object.entries gives them. A score is the fraction num / den, compared  *)
(* by cross-multiplication (shots_against is the only divisor).            *)
(***************************************************************************)

MaxStats == 4
MaxGoals == 1
MaxShots == 2
MaxStarCalls == 2

TopN == 3

Id(prefix, n) == [prefix |-> prefix, n |-> n]

\* stripPrefix of playerByAnyId: v.replace(/^mhl-/, '')
stripPrefix(id) == Id("", id.n)

NoPlayer == [id |-> Id("", 0), hockeytech_id |-> Id("", 0), name |-> <<"">>,
             number |-> 0]

SkaterStats ==
    [position : {"F"}, goals : 0 .. MaxGoals, assists : 0 .. MaxGoals,
     saves : {0}, shots_against : {0}, goals_against : {0}]

GoalieStats ==
    {st \in [position : {"G", "g"}, goals : {0}, assists : {0},
             saves : 0 .. MaxShots, shots_against : 0 .. MaxShots,
             goals_against : 0 .. MaxShots] :
        /\ st.saves + st.goals_against = st.shots_against
        /\ st.position = "g" => st.saves = 1 /\ st.shots_against = 1}

StatEntries == SkaterStats \cup GoalieStats

\* The ways the roster file may name the player of the stat key n.
RosterForms == {"same", "prefixedRoster", "prefixedKey", "secondary", "absent"}

StatKey(form, n) == IF form = "prefixedKey" THEN Id("mhl-", n) ELSE Id("", n)

RosterPlayer(form, n) ==
    [id |-> CASE form = "prefixedRoster" -> Id("mhl-", n)
              [] form = "secondary" -> Id("mhl-", n + MaxStats)
              [] OTHER -> Id("", n),
     hockeytech_id |-> Id("", n),
     name |-> <<"name", n>>,
     number |-> n]

RosterOf(form, len) ==
    IF form = "absent" THEN << >>
    ELSE [n \in 1 .. len |-> RosterPlayer(form, n)]

StatLists == UNION {[1 .. len -> StatEntries] : len \in 0 .. MaxStats}

GameOf(form, stats) ==
    [player_stats |->
        [n \in 1 .. Len(stats) |-> [key |-> StatKey(form, n), stats |-> stats[n]]]]

\* position.toUpperCase()
toUpperCase(position) ==
    CASE position = "g" -> "G"
      [] position = "f" -> "F"
      [] OTHER -> position

\* playerById.get(String(playerId)): the map is filled in roster order under
\* String(p.id || p.player_id || ''), a later player replacing an earlier
\* one of the same id.
playerByIdGet(roster, key) ==
    LET at == {j \in 1 .. Len(roster) : roster[j].id = key}
    IN IF at = {} THEN NoPlayer
       ELSE roster[CHOOSE j \in at : \A k \in at : k <= j]

\* playerByAnyId(id), over the roster it is given.
playerByAnyId(roster, id) ==
    LET hit(p) == \/ p.id = id
                  \/ stripPrefix(p.id) = stripPrefix(id)
                  \/ p.hockeytech_id = stripPrefix(id)
        at == {j \in 1 .. Len(roster) : hit(roster[j])}
    IN IF at = {} THEN NoPlayer
       ELSE roster[CHOOSE j \in at : \A k \in at : j <= k]

Fraction(num, den) == [num |-> num, den |-> den]

AtLeast(a, b) == a.num * b.den >= b.num * a.den

\* saves * 2 + (ga === 0 ? 50 : 0) + (svPct * 100), svPct = saves / shotsAgainst
GoalieScore(saves, shotsAgainst, ga) ==
    Fraction((saves * 2 + (IF ga = 0 THEN 50 ELSE 0)) * shotsAgainst
                 + 100 * saves,
             shotsAgainst)

\* goals * 3 + assists * 2
SkaterScore(goals, assists) == Fraction(goals * 3 + assists * 2, 1)

\* A skater is a candidate whatever the stat line.
SkaterEmittedAlways(goals, assists) == TRUE

\* points > 0 || goals > 0
SkaterEmitted(goals, assists) == goals + assists > 0 \/ goals > 0

\* The candidate the loop body pushes for one entry, or Skipped.
Skipped == [emitted |-> FALSE]

CandidateOf(entry, roster) ==
    LET player == playerByIdGet(roster, entry.key)
        found == player # NoPlayer
        stats == entry.stats
        name == IF found THEN player.name ELSE <<"Player", entry.key>>
        jersey == IF found THEN player.number ELSE 0
        isGoalie == toUpperCase(stats.position) = "G"
    IN IF isGoalie
       THEN IF stats.shots_against > 0
            THEN [emitted |-> TRUE, playerId |-> entry.key, name |-> name,
                  jersey |-> jersey, position |-> "G", isGoalie |-> TRUE,
                  score |-> GoalieScore(stats.saves, stats.shots_against,
                                        stats.goals_against)]
            ELSE Skipped
       ELSE IF SkaterEmitted(stats.goals, stats.assists)
            THEN [emitted |-> TRUE, playerId |-> entry.key, name |-> name,
                  jersey |-> jersey, position |-> stats.position,
                  isGoalie |-> FALSE,
                  score |-> SkaterScore(stats.goals, stats.assists)]
            ELSE Skipped

\* The candidates array before the sort.
Candidates(g, roster) ==
    SelectSeq([n \in 1 .. Len(g.player_stats) |->
                  CandidateOf(g.player_stats[n], roster)],
              LAMBDA c : c.emitted)

\* A sort that puts a candidate before those of equal score met earlier.
RECURSIVE InsertBeforeEqual(_, _)
InsertBeforeEqual(c, sorted) ==
    IF sorted = << >> THEN <<c>>
    ELSE IF AtLeast(c.score, Head(sorted).score)
         THEN <<c>> \o sorted
         ELSE <<Head(sorted)>> \o InsertBeforeEqual(c, Tail(sorted))

\* candidates.sort((a, b) => b.score - a.score): stable, so a candidate goes
\* after those of greater or equal score already placed.
RECURSIVE InsertByScore(_, _)
InsertByScore(c, sorted) ==
    IF sorted = << >> THEN <<c>>
    ELSE IF AtLeast(Head(sorted).score, c.score)
         THEN <<Head(sorted)>> \o InsertByScore(c, Tail(sorted))
         ELSE <<c>> \o sorted

RECURSIVE SortByScore(_)
SortByScore(cands) ==
    IF cands = << >> THEN << >>
    ELSE InsertByScore(cands[Len(cands)],
                       SortByScore(SubSeq(cands, 1, Len(cands) - 1)))

\* candidates.slice(0, 3)
Slice3(sorted) ==
    SubSeq(sorted, 1, IF Len(sorted) < TopN THEN Len(sorted) ELSE TopN)

\* A ranker that turns the order around on every second call.
computeThreeStarsByTurns(g, roster) ==
    LET sorted == SortByScore(Candidates(g, roster))
        turned == [j \in 1 .. Len(sorted) |-> sorted[Len(sorted) + 1 - j]]
    IN Slice3(IF result.calls % 2 = 1 THEN turned ELSE sorted)

computeThreeStars(g, roster) == Slice3(SortByScore(Candidates(g, roster)))

NotCalled == [calls |-> 0, stars |-> << >>, candidates |-> << >>,
              before |-> << >>]

InitStars ==
    /\ game = CHOOSE g \in GameRecords : WellFormed(g)
    /\ ret = NoCall
    /\ DisplayIdle
    /\ RotationIdle
    /\ LoadIdle
    /\ BootIdle
    /\ \E form \in RosterForms, stats \in StatLists :
           args = [game |-> GameOf(form, stats),
                   roster |-> RosterOf(form, Len(stats))]
    /\ result = NotCalled

\* computeThreeStars(lastGame, STATE.roster)
callComputeThreeStars ==
    /\ result.calls < MaxStarCalls
    /\ result' = [calls |-> result.calls + 1,
                  stars |-> computeThreeStars(args.game, args.roster),
                  candidates |-> Candidates(args.game, args.roster),
                  before |-> result.stars]
    /\ UNCHANGED <<gameVars, displayVars, rotVars, loadVars, bootVars, args>>

NextStars == callComputeThreeStars

SpecStars == InitStars /\ [][NextStars]_vars

\* The entry of the game's player_stats under a key, and its place in the
\* order of the entries.
KeyIndex(key) ==
    CHOOSE n \in 1 .. Len(args.game.player_stats) :
        args.game.player_stats[n].key = key

StatsOf(key) == args.game.player_stats[KeyIndex(key)].stats

IsGoalieEntry(stats) == toUpperCase(stats.position) = "G"

(* C12: the candidate list of the three stars never holds a skater with no  *)
(* goal and no assist in that game, and never a goalie with no shot against *)
(* in that game.                                                            *)
C12_NoEmptyStatCandidates ==
    result.calls > 0 =>
        \A j \in 1 .. Len(result.candidates) :
            LET stats == StatsOf(result.candidates[j].playerId)
            IN /\ ~(~IsGoalieEntry(stats) /\ stats.goals = 0 /\ stats.assists = 0)
               /\ ~(IsGoalieEntry(stats) /\ stats.shots_against = 0)

\* A call on a game that lists a skater without a point and a goalie without
\* a shot against next to players who are candidates.
C12_Witness ==
    /\ result.calls > 0
    /\ Len(result.candidates) > 0
    /\ \E n \in 1 .. Len(args.game.player_stats) :
           LET stats == args.game.player_stats[n].stats
           IN ~IsGoalieEntry(stats) /\ stats.goals = 0 /\ stats.assists = 0
    /\ \E n \in 1 .. Len(args.game.player_stats) :
           LET stats == args.game.player_stats[n].stats
           IN IsGoalieEntry(stats) /\ stats.shots_against = 0

SameScore(a, b) == a.num * b.den = b.num * a.den

\* The score the ranking is stated to give a stat line.
StatedScore(stats) ==
    IF IsGoalieEntry(stats)
    THEN Fraction(stats.shots_against
                      * (stats.saves * 2
                           + (IF stats.goals_against = 0 THEN 50 ELSE 0))
                      + 100 * stats.saves,
                  stats.shots_against)
    ELSE Fraction(stats.goals * 3 + stats.assists * 2, 1)

\* a ranks before b: a greater score, or the same score and met first.
RanksBefore(a, b) ==
    /\ AtLeast(a.score, b.score)
    /\ SameScore(a.score, b.score) => KeyIndex(a.playerId) < KeyIndex(b.playerId)

(* C13: the ranker returns the top 3 candidates in descending order of      *)
(* score, a skater scoring goals*3 + assists*2 and a goalie saves*2 + (50   *)
(* when no goal against) + 100*saves/shotsAgainst; candidates of equal      *)
(* score keep the order in which the player-stats map lists them.           *)
C13_TopThreeByScore ==
    result.calls > 0 =>
        LET stars == result.stars
            cands == result.candidates
        IN /\ Len(stars) = (IF Len(cands) < 3 THEN Len(cands) ELSE 3)
           /\ \A j \in 1 .. Len(stars) :
                  /\ stars[j] \in Range(cands)
                  /\ SameScore(stars[j].score,
                               StatedScore(StatsOf(stars[j].playerId)))
           /\ \A j, k \in 1 .. Len(stars) :
                  j < k => RanksBefore(stars[j], stars[k])
           /\ \A c \in Range(cands) \ Range(stars) :
                  \A j \in 1 .. Len(stars) : RanksBefore(stars[j], c)

\* A call with more candidates than places, a shutout goalie among the
\* stars, and a candidate left out that ties with the last star.
C13_Witness ==
    /\ result.calls > 0
    /\ Len(result.candidates) > TopN
    /\ \E j \in 1 .. Len(result.stars) :
           /\ result.stars[j].isGoalie
           /\ StatsOf(result.stars[j].playerId).goals_against = 0
    /\ \E c \in Range(result.candidates) \ Range(result.stars) :
           SameScore(c.score, result.stars[Len(result.stars)].score)

(* C15: the ranker resolves the roster player of every player-stats entry   *)
(* by normalized id: when the stat key and a roster id differ only by the   *)
(* league prefix, or the stat key is the roster player's secondary external *)
(* id, the candidate carries that player's name and jersey number.          *)
C15_CandidateResolvedByNormalizedId ==
    result.calls > 0 =>
        \A j \in 1 .. Len(result.candidates) :
            LET c == result.candidates[j]
                p == playerByAnyId(args.roster, c.playerId)
            IN p # NoPlayer => c.name = p.name /\ c.jersey = p.number

----------------------------------------------------------------------------
(* renderRecap: the three stars of the last game                           *)
(*                                                                         *)
(* SpecRecapStars applies the three-stars block of renderRecap to the most *)
(* recent completed game (the score and the sentence of the slide are in   *)
(* SpecDisplay). The game carries a list of official stars of up to        *)
(* MaxOfficial entries in one of the places a games file can hold it:      *)
(* `three_stars` or `threeStars` on the game, or `box_score.three_stars`,  *)
(* where the box score scraper merges what parseThreeStars found.          *)
(***************************************************************************)

MaxOfficial == 4
MaxRecapStats == 2

\* A list a record may hold: an array, or nothing (undefined or null).
Absent == [kind |-> "undefined", items |-> << >>]

ArrayOf(items) == [kind |-> "array", items |-> items]

StarPlaces == {"three_stars", "threeStars", "box_score"}

\* The list of the first len official stars; parseThreeStars gives null
\* for no star at all.
OfficialStars(place, len) ==
    IF place = "box_score" /\ len = 0 THEN Absent
    ELSE ArrayOf([n \in 1 .. len |-> [name |-> <<"star", n>>]])

RecapStatLists ==
    UNION {[1 .. len -> StatEntries] : len \in 0 .. MaxRecapStats}

RecapGame(place, len, stats) ==
    [three_stars |-> IF place = "three_stars"
                     THEN OfficialStars(place, len) ELSE Absent,
     threeStars |-> IF place = "threeStars"
                    THEN OfficialStars(place, len) ELSE Absent,
     box_score |-> [three_stars |-> IF place = "box_score"
                                    THEN OfficialStars(place, len) ELSE Absent],
     player_stats |-> GameOf("same", stats).player_stats]

\* a || b on lists: an array, empty or not, is truthy.
OrList(a, b) == IF a.kind = "undefined" THEN b ELSE a

\* lastGame.three_stars || lastGame.threeStars || []
officialStars(g) ==
    OrList(OrList(g.three_stars, g.threeStars), ArrayOf(<< >>)).items

\* officialStars.length >= 3
UsesOfficial(stars) == Len(stars) >= 3

NotRendered == [rendered |-> FALSE]

InitRecapStars ==
    /\ game = CHOOSE g \in GameRecords : WellFormed(g)
    /\ ret = NoCall
    /\ DisplayIdle
    /\ RotationIdle
    /\ LoadIdle
    /\ BootIdle
    /\ \E place \in StarPlaces, len \in 0 .. MaxOfficial,
          stats \in RecapStatLists :
           args = [game |-> RecapGame(place, len, stats),
                   roster |-> RosterOf("same", Len(stats))]
    /\ result = NotRendered

\* The block `if (threeStars) { ... }` of renderRecap.
renderRecapStars ==
    /\ ~result.rendered
    /\ LET official == officialStars(args.game)
       IN IF UsesOfficial(official)
          THEN result' =
                   [rendered |-> TRUE,
                    label |-> "3 Stars (Official)",
                    rows |-> [j \in 1 .. 3 |-> official[j].name],
                    ranked |-> FALSE]
          ELSE LET computed == computeThreeStars(args.game, args.roster)
               IN result' =
                      [rendered |-> TRUE,
                       label |-> "Top Performers (Game)",
                       rows |-> [j \in 1 .. Len(computed) |-> computed[j].name],
                       ranked |-> TRUE]
    /\ UNCHANGED <<gameVars, displayVars, rotVars, loadVars, bootVars, args>>

NextRecapStars == renderRecapStars

SpecRecapStars == InitRecapStars /\ [][NextRecapStars]_vars

\* The list of official stars the data source supplied with the game,
\* wherever the games file holds it.
SuppliedStars(g) ==
    OrList(OrList(OrList(g.three_stars, g.threeStars), g.box_score.three_stars),
           ArrayOf(<< >>)).items

(* C14: when the data source supplied an authoritative three-stars list of  *)
(* at least 3 entries for the most recent completed game, the recap shows   *)
(* exactly the first three entries of that list, in order, and the computed *)
(* ranking is not invoked for that game.                                    *)
C14_OfficialStarsShownVerbatim ==
    (result.rendered /\ Len(SuppliedStars(args.game)) >= 3) =>
        /\ result.rows = [j \in 1 .. 3 |-> SuppliedStars(args.game)[j].name]
        /\ ~result.ranked

----------------------------------------------------------------------------
(* The helpers and the ranker on any raw game record                       *)
(*                                                                         *)
(* SpecHelpers applies each game helper and computeThreeStars to a raw     *)
(* record that may carry the fields of both shapes, or of neither, and     *)
(* whose fields may hold values of the wrong type: `opponent` an object, a *)
(* string, null or missing; `home_game` a boolean, a string or missing; a  *)
(* player_stats entry that is null, or whose position is a number. A value *)
(* that is no string where a string is expected is written "<number>".     *)
(* getOpponent returns the name it read, written as the field it came      *)
(* from; STATE.teams is an array here.                                     *)
(***************************************************************************)

\* A player_stats entry that is null.
NullStats == [kind |-> "null"]

\* A skater's entry whose position is a number.
NumberPosition ==
    [position |-> "<number>", goals |-> 1, assists |-> 0, saves |-> 0,
     shots_against |-> 0, goals_against |-> 0]

GoodSkater ==
    [position |-> "F", goals |-> 1, assists |-> 0, saves |-> 0,
     shots_against |-> 0, goals_against |-> 0]

RawStatLists == {<< >>, <<NullStats>>, <<NumberPosition>>, <<GoodSkater>>}

RawGames ==
    {g \in [ opponent       : {"undefined", "null", "object", "string"},
             home_game      : {"undefined", "true", "false", "string"},
             result         : {"absent", "falsy", "obj"},
             ramblers_score : Scores,
             opponent_score : {Null, 0},
             won            : {"undefined"},
             home_team_slug : {"", Team},
             homeTeam_slug  : {""},
             home_score     : Scores,
             away_score     : {Null, 0},
             homeScore      : {Null},
             awayScore      : {Null},
             player_stats   : {GameOf("same", stats).player_stats :
                                   stats \in RawStatLists} ] :
        g.result # "obj" => g.ramblers_score = Null /\ g.opponent_score = Null}

\* if (game.opponent): an object or a non-empty string is truthy.
HasOpponent(g) == g.opponent \in {"object", "string"}

\* getOpponent(game).name, as the field the name was read from.
getOpponent(g) ==
    IF HasOpponent(g)
    THEN IF g.opponent = "object" THEN "opponent.team_name" ELSE "TBD"
    ELSE IF isHomeGame(g) THEN "away_team" ELSE "home_team"

\* The loop body of computeThreeStars reads stats.position of a null entry,
\* or calls toUpperCase on a position that is no string.
EntryThrows(stats) ==
    \/ stats = NullStats
    \/ stats.position = "<number>"

computeThreeStarsThrows(g) ==
    \E n \in 1 .. Len(g.player_stats) : EntryThrows(g.player_stats[n].stats)

NoResult == [fn |-> "none", threw |-> FALSE]

Returned(fn, val) == [fn |-> fn, threw |-> FALSE, val |-> val]

Threw(fn) == [fn |-> fn, threw |-> TRUE]

InitHelpers ==
    /\ game = CHOOSE g \in GameRecords : WellFormed(g)
    /\ ret = NoCall
    /\ DisplayIdle
    /\ RotationIdle
    /\ LoadIdle
    /\ BootIdle
    /\ \E g \in RawGames :
           args = [game |-> g, roster |-> RosterOf("same", Len(g.player_stats))]
    /\ result = NoResult

HelperFrame ==
    UNCHANGED <<gameVars, displayVars, rotVars, loadVars, bootVars, args>>

helperIsHomeGame ==
    /\ result = NoResult
    /\ result' = Returned("isHomeGame", Bool(isHomeGame(args.game)))
    /\ HelperFrame

helperGetOpponent ==
    /\ result = NoResult
    /\ result' = Returned("getOpponent", getOpponent(args.game))
    /\ HelperFrame

helperGetOurScore ==
    /\ result = NoResult
    /\ result' = Returned("getOurScore", getOurScore(args.game))
    /\ HelperFrame

helperGetTheirScore ==
    /\ result = NoResult
    /\ result' = Returned("getTheirScore", getTheirScore(args.game))
    /\ HelperFrame

helperDidWeWin ==
    /\ result = NoResult
    /\ result' = Returned("didWeWin", didWeWin(args.game))
    /\ HelperFrame

helperIsCompleted ==
    /\ result = NoResult
    /\ result' = Returned("isCompleted", Bool(isCompleted(args.game)))
    /\ HelperFrame

helperComputeThreeStars ==
    /\ result = NoResult
    /\ result' = IF computeThreeStarsThrows(args.game)
                 THEN Threw("computeThreeStars")
                 ELSE Returned("computeThreeStars",
                               computeThreeStars(args.game, args.roster))
    /\ HelperFrame

NextHelpers ==
    \/ helperIsHomeGame
    \/ helperGetOpponent
    \/ helperGetOurScore
    \/ helperGetTheirScore
    \/ helperDidWeWin
    \/ helperIsCompleted
    \/ helperComputeThreeStars

SpecHelpers == InitHelpers /\ [][NextHelpers]_vars

(* C17: for any input game record (an empty one, null fields, fields of the *)
(* wrong type, player-stats entries that are null or carry a position that  *)
(* is no string), the game helpers and the three-stars ranker return a      *)
(* value without throwing.                                                  *)
C17_NeverThrows == ~result.threw

\* The classification of a raw record: current shape when `opponent` is an
\* object and `home_game` a boolean, legacy shape otherwise.
IsCurrentShape(g) ==
    g.opponent = "object" /\ g.home_game \in {"true", "false"}

LegacyHome(g) ==
    (IF g.home_team_slug # "" THEN g.home_team_slug ELSE g.homeTeam_slug) = Team

\* What a helper returns when the record is read in its one shape only.
ReadInOneShape(fn, g) ==
    CASE fn = "isHomeGame" ->
             Bool(IF IsCurrentShape(g) THEN g.home_game = "true" ELSE LegacyHome(g))
      [] fn = "getOpponent" ->
             IF IsCurrentShape(g) THEN "opponent.team_name"
             ELSE IF LegacyHome(g) THEN "away_team" ELSE "home_team"
      [] fn = "getOurScore" ->
             IF IsCurrentShape(g)
             THEN (IF g.result = "obj" THEN g.ramblers_score ELSE Null)
             ELSE IF LegacyHome(g) THEN Coalesce(g.home_score, g.homeScore)
             ELSE Coalesce(g.away_score, g.awayScore)
      [] fn = "getTheirScore" ->
             IF IsCurrentShape(g)
             THEN (IF g.result = "obj" THEN g.opponent_score ELSE Null)
             ELSE IF LegacyHome(g) THEN Coalesce(g.away_score, g.awayScore)
             ELSE Coalesce(g.home_score, g.homeScore)
      [] fn = "isCompleted" ->
             Bool(IF IsCurrentShape(g) THEN g.result # "absent"
                  ELSE g.home_score # Null \/ g.homeScore # Null)

ShapeHelpers ==
    {"isHomeGame", "getOpponent", "getOurScore", "getTheirScore", "isCompleted"}

(* C18: a raw record is treated as current shape exactly when `opponent` is *)
(* an object and `home_game` is a boolean, and every helper (home/away,     *)
(* opponent, our/their score, completed) applies that one classification:   *)
(* what a helper returns is what the record gives when read in its shape    *)
(* only, never partly as current and partly as legacy.                      *)
C18_OneShapePerRecord ==
    result.fn \in ShapeHelpers =>
        result.val = ReadInOneShape(result.fn, args.game)

----------------------------------------------------------------------------
(* renderStandings: the two division tables                                *)
(*                                                                         *)
(* SpecStandings applies renderStandings to STATE.standings.rows of up to  *)
(* MaxRows rows. A row carries its place n in the file, a `division` that  *)
(* may be missing (""), a team name, `pts` and `diff`; the page holds both *)
(* tables.                                                                 *)
(***************************************************************************)

MaxRows == 6
MaxPts == 1
MaxDiff == 1

\* Top 4 make playoffs
PlayoffSeeds == 4

South == "Eastlink South"
North == "Eastlink North"

SOUTH_TEAMS ==
    {"amherst", "ramblers", "truro", "bearcats", "pictou", "crushers",
     "yarmouth", "mariners", "valley", "wildcats", "south shore", "lumberjacks"}

\* The fragments of SOUTH_TEAMS a lower-cased team name includes.
FragmentsIn(team) ==
    CASE team = "Truro Bearcats" -> {"truro", "bearcats"}
      [] team = "Amherst Ramblers" -> {"amherst", "ramblers"}
      [] team = "Summerside Western Capitals" -> {}

\* How a row names its division and its team.
RowKinds ==
    { [division |-> South, team |-> "Truro Bearcats"],
      [division |-> "", team |-> "Truro Bearcats"],
      [division |-> "", team |-> "Summerside Western Capitals"] }

RowStats == {st \in [pts : 0 .. MaxPts, diff : 0 .. MaxDiff] : st.diff <= st.pts}

StandingsRow(n, kind, st) ==
    [n |-> n, division |-> kind.division, team |-> kind.team,
     pts |-> st.pts, diff |-> st.diff]

\* The rows of a standings file, from what each row holds.
RowsOf(picks) ==
    [n \in 1 .. Len(picks) |-> StandingsRow(n, picks[n][1], picks[n][2])]

\* team.division || (SOUTH_TEAMS.some(...) ? 'Eastlink South' : 'Eastlink North')
\* A row goes to the division its name suggests, whatever its `division`.
divisionByName(team) ==
    IF FragmentsIn(team.team) \cap SOUTH_TEAMS # {} THEN South ELSE North

divisionOf(team) ==
    IF team.division # "" THEN team.division
    ELSE IF FragmentsIn(team.team) \cap SOUTH_TEAMS # {} THEN South ELSE North

southTeamsOf(rows) == SelectSeq(rows, LAMBDA team : divisionOf(team) = South)

northTeamsOf(rows) == SelectSeq(rows, LAMBDA team : divisionOf(team) # South)

\* teams.sort((a, b) => (b.pts || 0) - (a.pts || 0)): stable.
RECURSIVE InsertByPts(_, _)
InsertByPts(team, sorted) ==
    IF sorted = << >> THEN <<team>>
    ELSE IF Head(sorted).pts >= team.pts
         THEN <<Head(sorted)>> \o InsertByPts(team, Tail(sorted))
         ELSE <<team>> \o sorted

RECURSIVE SortByPts(_)
SortByPts(teams) ==
    IF teams = << >> THEN << >>
    ELSE InsertByPts(teams[Len(teams)],
                     SortByPts(SubSeq(teams, 1, Len(teams) - 1)))

\* The cutline drawn under the first team out.
isCutlineBelow(rank) == rank = PlayoffSeeds + 1

\* const isCutline = rank === 4
isCutline(rank) == rank = PlayoffSeeds

\* renderDivision(teams, container, ...): the rows of one table.
renderDivision(teams) ==
    [i \in 1 .. Len(teams) |->
        [team |-> teams[i], rank |-> i, cutline |-> isCutline(i)]]

NoTables == [rendered |-> FALSE]

InitStandings ==
    /\ game = CHOOSE g \in GameRecords : WellFormed(g)
    /\ ret = NoCall
    /\ DisplayIdle
    /\ RotationIdle
    /\ LoadIdle
    /\ BootIdle
    /\ \E len \in 0 .. MaxRows :
           \E picks \in [1 .. len -> RowKinds \X RowStats] :
               args = [rows |-> RowsOf(picks)]
    /\ result = NoTables

renderStandings ==
    /\ ~result.rendered
    /\ result' = [rendered |-> TRUE,
                  southTable |-> renderDivision(SortByPts(southTeamsOf(args.rows))),
                  northTable |-> renderDivision(SortByPts(northTeamsOf(args.rows)))]
    /\ UNCHANGED <<gameVars, displayVars, rotVars, loadVars, bootVars, args>>

NextStandings == renderStandings

SpecStandings == InitStandings /\ [][NextStandings]_vars

\* The rows of a table that carry the cutoff marker, by 0-based index.
Marked(table) == {i - 1 : i \in {j \in 1 .. Len(table) : table[j].cutline}}

CutoffAtIndex3(table) == Len(table) >= 4 + 1 => Marked(table) = {4 - 1}

TieOrdered(a, b) ==
    /\ a.diff >= b.diff
    /\ a.diff = b.diff => a.n < b.n

OrderedByPtsThenDiff(table) ==
    \A i, j \in 1 .. Len(table) :
        i < j =>
            /\ table[i].team.pts >= table[j].team.pts
            /\ table[i].team.pts = table[j].team.pts =>
                   TieOrdered(table[i].team, table[j].team)

(* C20: within each division the rows are ordered by pts descending; rows   *)
(* of equal pts are ordered by goal differential descending when it is      *)
(* available, and keep their input order otherwise.                         *)
C20_OrderedByPtsThenDiff ==
    result.rendered =>
        /\ OrderedByPtsThenDiff(result.southTable)
        /\ OrderedByPtsThenDiff(result.northTable)

----------------------------------------------------------------------------
(* updateDivisionMeta and renderStandings on the same rows                 *)
(*                                                                         *)
(* SpecDivisions runs the two standings steps of renderAll, in its order,  *)
(* on a standings file of up to MaxDivRows rows. A row names one of the    *)
(* two divisions of the league or none, and its team is the home team, a   *)
(* team whose name holds a South fragment, or one whose name holds none;   *)
(* the file lists the home team once at most.                              *)
(***************************************************************************)

MaxDivRows == 3

DivisionNames == {South, North, ""}

TeamNames ==
    {"Amherst Ramblers", "Truro Bearcats", "Summerside Western Capitals"}

DivisionKinds == [division : DivisionNames, team : TeamNames]

\* r.slug === CONFIG.team || (r.team || '').toLowerCase().includes('amherst')
IsUs(row) == row.team = "Amherst Ramblers"

\* The rows the header ranks: r.division === CONFIG.division, or the home
\* team itself.
HeaderTeams(rows) ==
    SelectSeq(rows, LAMBDA r : r.division = South \/ IsUs(r))

\* findIndex(...) + 1: the first place of the home team, 0 when it is not
\* listed.
FindUs(teams) ==
    IF \E i \in 1 .. Len(teams) : IsUs(teams[i])
    THEN CHOOSE i \in 1 .. Len(teams) :
             IsUs(teams[i]) /\ \A j \in 1 .. i - 1 : ~IsUs(teams[j])
    ELSE 0

\* The division rank updateDivisionMeta writes into #divisionMeta: 0 stands
\* for '--'.
divRankOf(rows) == FindUs(SortByPts(HeaderTeams(rows)))

InitDivisions ==
    /\ game = CHOOSE g \in GameRecords : WellFormed(g)
    /\ ret = NoCall
    /\ DisplayIdle
    /\ RotationIdle
    /\ LoadIdle
    /\ BootIdle
    /\ \E len \in 0 .. MaxDivRows :
           \E picks \in [1 .. len -> DivisionKinds \X RowStats] :
               /\ Cardinality({n \in 1 .. len : IsUs(picks[n][1])}) <= 1
               /\ args = [rows |-> RowsOf(picks)]
    /\ result = [stage |-> "loaded"]

updateDivisionMeta ==
    /\ result.stage = "loaded"
    /\ result' = [stage |-> "header", divRank |-> divRankOf(args.rows)]
    /\ UNCHANGED <<gameVars, displayVars, rotVars, loadVars, bootVars, args>>

\* renderStandings(), later in the same renderAll().
renderStandingsTables ==
    /\ result.stage = "header"
    /\ result' = [stage |-> "tables",
                  divRank |-> result.divRank,
                  southTable |-> renderDivision(SortByPts(southTeamsOf(args.rows))),
                  northTable |-> renderDivision(SortByPts(northTeamsOf(args.rows)))]
    /\ UNCHANGED <<gameVars, displayVars, rotVars, loadVars, bootVars, args>>

NextDivisions ==
    \/ updateDivisionMeta
    \/ renderStandingsTables

SpecDivisions == InitDivisions /\ [][NextDivisions]_vars

\* The rows a table shows.
TeamsIn(table) == {table[i].team : i \in 1 .. Len(table)}

(* C21: every standings row is placed in exactly one division list: a row   *)
(* with an explicit `division` goes to the division that field names; a row *)
(* without one goes to South when its team name contains one of the fixed   *)
(* name fragments, and to North otherwise.                                  *)
C21_RowsPlacedByDivisionThenName ==
    result.stage = "tables" =>
        \A n \in 1 .. Len(args.rows) :
            LET row == args.rows[n]
                inSouth == row \in TeamsIn(result.southTable)
                inNorth == row \in TeamsIn(result.northTable)
                named == IF row.division # "" THEN row.division
                         ELSE IF \E t \in SOUTH_TEAMS : t \in FragmentsIn(row.team)
                              THEN South ELSE North
            IN /\ inSouth # inNorth
               /\ inSouth <=> named = South
               /\ Len(result.southTable) + Len(result.northTable) = Len(args.rows)

\* Tables drawn from a file that holds a row of explicit North division
\* with a South name, a row without division with a South name and a row
\* without division whose name holds no fragment.
C21_Witness ==
    /\ result.stage = "tables"
    /\ \E a, b, c \in 1 .. Len(args.rows) :
           /\ args.rows[a].division = North
           /\ args.rows[a].team = "Truro Bearcats"
           /\ args.rows[b].division = ""
           /\ args.rows[b].team = "Truro Bearcats"
           /\ args.rows[c].division = ""
           /\ args.rows[c].team = "Summerside Western Capitals"

\* The 1-based place of the home team in the table that shows it, 0 when
\* no table does.
PlaceOfUs(table) ==
    IF \E i \in 1 .. Len(table) : IsUs(table[i].team)
    THEN (CHOOSE i \in 1 .. Len(table) : IsUs(table[i].team))
    ELSE 0

(* C30: for any standings data, the division rank of the home team shown in *)
(* the header equals the home team's 1-based position in the division table *)
(* rendered from the same rows.                                             *)
C30_HeaderRankIsTablePosition ==
    (result.stage = "tables" /\ \E n \in 1 .. Len(args.rows) : IsUs(args.rows[n])) =>
        result.divRank = PlaceOfUs(result.southTable)
                             + PlaceOfUs(result.northTable)

----------------------------------------------------------------------------
(* renderFaces: the players offered to the spotlight                       *)
(*                                                                         *)
(* A roster player is a skater or a goalie with the games played and, for  *)
(* a skater, the points, for a goalie, the save percentage (0: none); a    *)
(* player without a game has neither. Goals, assists, penalty minutes,     *)
(* wins and goals-against average are not recorded, so they read 0.        *)
(* pickRotatingPlayers keeps state between calls and pads at random: of    *)
(* its result renderFaces sees some players of the pool it offered, at     *)
(* least one when the pool is not empty and a pick is asked for.           *)
(***************************************************************************)

MaxRoster == 3

\* const FACE_CARDS = 12
FACE_CARDS == 12

RosterKinds ==
    {k \in [position : {"F", "G"}, gp : 0 .. 1, points : 0 .. 1, svPct : 0 .. 1] :
        /\ k.points <= k.gp
        /\ k.svPct <= k.gp
        /\ k.position = "G" => k.points = 0
        /\ k.position = "F" => k.svPct = 0}

RosterPlayerOf(n, k) ==
    [n |-> n, position |-> k.position, gp |-> k.gp,
     points |-> k.points, svPct |-> k.svPct]

\* (p.position || '').toUpperCase() === 'G'
isGoalie(p) == p.position = "G"

\* skatersAll.filter(p => p.gp > 0)
PlayedSkater(p) == p.gp > 0

\* goaliesAll.filter(g => g.gp > 0 || g.wins > 0 || g.svPct > 0 || g.gaa > 0)
PlayedGoalie(g) == g.gp > 0 \/ g.svPct > 0

\* filtered.length ? filtered : all
Prefer(filtered, all) == IF Len(filtered) > 0 THEN filtered ELSE all

\* [...list].sort((a, b) => key(b) - key(a))[0]: the first of the players
\* of the greatest key; key holds the key of every place of the list.
TopBy(list, key) ==
    CHOOSE i \in 1 .. Len(list) :
        /\ \A j \in 1 .. Len(list) : key[j] <= key[i]
        /\ \A j \in 1 .. i - 1 : key[j] < key[i]

\* The leaders of the spotlight: points, goals, assists, points per game and
\* penalty minutes among the skaters, save percentage among the goalies.
Curated(skatersUse, goaliesUse) ==
    (IF Len(skatersUse) > 0
     THEN { skatersUse[TopBy(skatersUse, [j \in 1 .. Len(skatersUse) |-> skatersUse[j].points])],
            skatersUse[TopBy(skatersUse, [j \in 1 .. Len(skatersUse) |-> 0])] }
     ELSE {})
    \cup
    (IF Len(goaliesUse) > 0
     THEN { goaliesUse[TopBy(goaliesUse, [j \in 1 .. Len(goaliesUse) |-> goaliesUse[j].svPct])] }
     ELSE {})

NoFaces == [rendered |-> FALSE]

InitFaces ==
    /\ game = CHOOSE g \in GameRecords : WellFormed(g)
    /\ ret = NoCall
    /\ DisplayIdle
    /\ RotationIdle
    /\ LoadIdle
    /\ BootIdle
    /\ \E len \in 0 .. MaxRoster :
           \E kinds \in [1 .. len -> RosterKinds] :
               args = [roster |-> [n \in 1 .. len |-> RosterPlayerOf(n, kinds[n])]]
    /\ result = NoFaces

renderFaces ==
    /\ ~result.rendered
    /\ LET skatersAll == SelectSeq(args.roster, LAMBDA p : ~isGoalie(p))
           goaliesAll == SelectSeq(args.roster, isGoalie)
           skaters == SelectSeq(skatersAll, PlayedSkater)
           goalies == SelectSeq(goaliesAll, PlayedGoalie)
           skatersUse == Prefer(skaters, skatersAll)
           goaliesUse == Prefer(goalies, goaliesAll)
           curated == Curated(skatersUse, goaliesUse)
           needed == IF FACE_CARDS > Cardinality(curated)
                     THEN FACE_CARDS - Cardinality(curated) ELSE 0
           pool == {skatersUse[j] : j \in 1 .. Len(skatersUse)}
                       \cup {goaliesUse[j] : j \in 1 .. Len(goaliesUse)}
           rotPool == pool \ curated
           offered == IF rotPool # {} THEN rotPool ELSE pool
       IN  \E picked \in SUBSET offered :
               /\ (offered # {} /\ needed > 0) => picked # {}
               /\ needed = 0 => picked = {}
               /\ result' = [rendered |-> TRUE,
                             needed |-> needed,
                             pool |-> pool,
                             picks |-> curated \cup picked]
    /\ UNCHANGED <<gameVars, displayVars, rotVars, loadVars, bootVars, args>>

NextFaces == renderFaces

SpecFaces == InitFaces /\ [][NextFaces]_vars

RosterSet == {args.roster[j] : j \in 1 .. Len(args.roster)}

\* No game played and no points, no saves.
ZeroStats(p) == p.gp = 0 /\ p.points = 0 /\ p.svPct = 0

\* The players the eligibility filter keeps.
Eligible == {p \in RosterSet : ~ZeroStats(p)}

(* C22: the spotlight eligibility filter excludes a player only when the    *)
(* player has zero games played and zero points/saves; whenever that        *)
(* exclusion would leave fewer than n eligible players the unfiltered pool  *)
(* is used instead; and the spotlight is never empty when the roster holds  *)
(* at least one player.                                                     *)
C22_EligibleOrUnfiltered ==
    result.rendered =>
        /\ \A p \in RosterSet \ result.pool : ZeroStats(p)
        /\ Cardinality(Eligible) < result.needed => result.pool = RosterSet
        /\ RosterSet # {} => result.picks # {}

----------------------------------------------------------------------------
(* renderTicker: the list of items                                         *)
(*                                                                         *)
(* SpecTicker assembles the items of the ticker from what the display      *)
(* holds: the standings (null, without rows of the division, or with the   *)
(* row of the home team), the games (one to play, one played), the points  *)
(* leaders of the league, the streaks, the special teams, and the          *)
(* overrides payload with its gate (active, until). An item is [b, t, id]: *)
(* b is the text of its <span class="b"> badge ("" when the item has       *)
(* none), t tells what the item says, id is the player it names (0: none). *)
(***************************************************************************)

MaxGoalStreaks == 1
MaxPointStreaks == 2
MaxPlayerId == 2

Item(b, t, id) == [b |-> b, t |-> t, id |-> id]

\* An entry of leagueStats.streaks.goals or .points.
StreakEntries ==
    {e \in [team : {"AMH", "OTH"}, active : BOOLEAN, player_id : 1 .. MaxPlayerId] :
        e.team = "OTH" => e.active}

StreakLists(max) == UNION {[1 .. len -> StreakEntries] : len \in 0 .. max}

\* overrides.json: absent, or a payload with its gate fields.
Overrides ==
    {[present |-> FALSE, active |-> FALSE, until |-> "past"]}
        \cup [present : {TRUE}, active : BOOLEAN, until : {"past", "future"}]

\* leagueStats.leaders.points: the team of each leader, first to last.
LeaderLists == {<< >>, <<"AMH">>, <<"OTH", "AMH">>}

TickerInputs ==
    [ standings    : {"null", "empty", "rows"},
      future       : BOOLEAN,
      past         : BOOLEAN,
      leaders      : LeaderLists,
      goalStreaks  : StreakLists(MaxGoalStreaks),
      pointStreaks : StreakLists(MaxPointStreaks),
      ppTop3       : BOOLEAN,
      pkTop3       : BOOLEAN,
      overrides    : Overrides ]

If(cond, items) == IF cond THEN items ELSE << >>

\* list.find(s => s.team === 'AMH' && s.active): the place of the first such
\* entry, 0 when find gives undefined.
FindAmherstActive(list) ==
    LET hits == {i \in 1 .. Len(list) : list[i].team = "AMH" /\ list[i].active}
    IN  IF hits = {} THEN 0 ELSE CHOOSE i \in hits : \A j \in hits : i <= j

\* if (amherstPointStreak &&
\*     amherstPointStreak.player_id !== amherstGoalStreak?.player_id)
PointStreakItems(goalStreaks, pointStreaks) ==
    LET g == FindAmherstActive(goalStreaks)
        p == FindAmherstActive(pointStreaks)
    IN  If(p # 0 /\ (g = 0 \/ pointStreaks[p].player_id # goalStreaks[g].player_id),
           <<Item("Point Streak", "pointStreak", pointStreaks[p].player_id)>>)

GoalStreakItems(goalStreaks) ==
    LET g == FindAmherstActive(goalStreaks)
    IN  If(g # 0, <<Item("Hot Streak", "goalStreak", goalStreaks[g].player_id)>>)

\* The Amherst players of the top 10 behind the leader: the badge is the
\* name of the player.
Top10Items(leaders) ==
    LET behind == SelectSeq([i \in 1 .. Len(leaders) |-> [rank |-> i, team |-> leaders[i]]],
                            LAMBDA l : l.team = "AMH" /\ l.rank > 1)
    IN  [i \in 1 .. Len(behind) |-> Item("name", "top10", 0)]

\* const promos = [...]; promos.forEach(p => items.push(p))
PromoItems ==
    <<Item("", "Season tickets available at ramblershockey.ca", 0),
      Item("", "Follow us @AmherstRamblers", 0),
      Item("", "Home games at Amherst Stadium", 0)>>

\* The items renderTicker assembles, in its order.
TickerItems(in) ==
    If(in.standings = "rows", <<Item("Ramblers", "standings", 0)>>)
    \o If(in.future, <<Item("Next Game", "next", 0)>>)
    \o If(in.past, <<Item("Last Game", "last", 0)>>)
    \o If(in.leaders # << >>, <<Item("MHL Points Leader", "leader", 0)>>)
    \o Top10Items(in.leaders)
    \o GoalStreakItems(in.goalStreaks)
    \o PointStreakItems(in.goalStreaks, in.pointStreaks)
    \o If(in.ppTop3, <<Item("Power Play", "powerplay", 0)>>)
    \o If(in.pkTop3, <<Item("Penalty Kill", "penaltykill", 0)>>)
    \o PromoItems
    \o If(in.standings = "rows", <<Item("Eastlink South Leader", "teaser", 0)>>)

NoTicker == [assembled |-> FALSE]

InitTicker ==
    /\ game = CHOOSE g \in GameRecords : WellFormed(g)
    /\ ret = NoCall
    /\ DisplayIdle
    /\ RotationIdle
    /\ LoadIdle
    /\ BootIdle
    /\ args \in TickerInputs
    /\ result = NoTicker

\* renderTicker(), every item of it.
assembleTicker ==
    /\ ~result.assembled
    /\ result' = [assembled |-> TRUE, items |-> TickerItems(args)]
    /\ UNCHANGED <<gameVars, displayVars, rotVars, loadVars, bootVars, args>>

NextTicker == assembleTicker

SpecTicker == InitTicker /\ [][NextTicker]_vars

\* active === true and `until` not yet expired.
GatePasses(o) == o.present /\ o.active /\ o.until = "future"

IsPromo(item) == \E k \in 1 .. Len(PromoItems) : item = PromoItems[k]

HasPromo(items) == \E k \in 1 .. Len(items) : IsPromo(items[k])

(* C23: promotional/override content contributes an item to the ticker only *)
(* when the gate passes: with active = false, with active = true and        *)
(* `until` in the past, or with the gate fields absent, no such item is in  *)
(* the ticker; with active = true and `until` in the future, it is.         *)
C23_PromoOnlyWhenGatePasses ==
    result.assembled => (HasPromo(result.items) <=> GatePasses(args.overrides))

(* C24: every item in the assembled ticker list carries a source-category   *)
(* label, promotional items included; no item is emitted without a label.   *)
C24_EveryItemLabelled ==
    result.assembled =>
        \A k \in 1 .. Len(result.items) : result.items[k].b # ""

\* The player the displayed goal-streak item names, 0 when none is shown.
GoalStreakPlayer(items) ==
    IF \E k \in 1 .. Len(items) : items[k].t = "goalStreak"
    THEN items[CHOOSE k \in 1 .. Len(items) : items[k].t = "goalStreak"].id
    ELSE 0

(* C29: the ticker contains a point-streak item if and only if some Amherst *)
(* player other than the player of the displayed goal-streak item has an    *)
(* active point streak.                                                     *)
C29_PointStreakIffOtherPlayer ==
    result.assembled =>
        ((\E k \in 1 .. Len(result.items) : result.items[k].t = "pointStreak")
            <=> \E i \in 1 .. Len(args.pointStreaks) :
                    /\ args.pointStreaks[i].team = "AMH"
                    /\ args.pointStreaks[i].active
                    /\ args.pointStreaks[i].player_id
                           # GoalStreakPlayer(result.items))

----------------------------------------------------------------------------
(* pickRotatingPlayers, one loop iteration at a time                       *)
(*                                                                         *)
(* SpecPickLoop follows the calls of pickRotatingPlayers on an unchanged   *)
(* pool of P players with an unchanged n, through the days: the frame of   *)
(* the call in progress (pc, i, seen, picks, loops) and the rotation state *)
(* localStorage holds (st) are fields of `result`. Math.random() draws any *)
(* player of the pool; `drawn` is the place of the last player drawn. The  *)
(* clock counts the calls, and Date.now() reads it.                        *)
(***************************************************************************)

MaxLoopPool == 4
MaxLoopWant == 5
MaxLoopCalls == 3
MaxLoopDay == 2

\* The cursor that wraps around the pool.
NextCursorWrapped(i, P) == (i + 1) % P

\* i++
NextCursor(i, P) == i + 1

\* The padding loop that leaves only once n picks are made.
PadBreaksNever(picks, P) == FALSE

\* if (picks.length >= sorted.length) break
PadBreaks(picks, P) == Len(picks) >= P

\* A draw that is pushed whether picked before or not.
AnyDraw(picks, p) == TRUE

\* !picks.includes(p)
NotPicked(picks, p) == ~Includes(picks, p)

LoopSorted == SortPlayers(Pool(args.P))

\* No call made yet: localStorage holds no rotation state.
NoFrame ==
    [ pc |-> "idle", day |-> 1, calls |-> 0,
      st |-> [dayKey |-> 0, seen |-> << >>, i |-> 0, t |-> 0],
      start |-> 0, i |-> 0, seen |-> << >>, picks |-> << >>, loops |-> 0,
      drawn |-> 0 ]

InitPickLoop ==
    /\ game = CHOOSE g \in GameRecords : WellFormed(g)
    /\ ret = NoCall
    /\ DisplayIdle
    /\ RotationIdle
    /\ LoadIdle
    /\ BootIdle
    /\ args \in [P : 1 .. MaxLoopPool, n : 1 .. MaxLoopWant]
    /\ result = NoFrame

LoopFrame == UNCHANGED <<gameVars, displayVars, rotVars, loadVars, bootVars, args>>

\* The call up to the loop: loadRotation(), `seen` bound to the stored
\* list, the daily reset, the sort, `let i = st.i || 0`.
pickEnter ==
    /\ result.pc \in {"idle", "done"}
    /\ result.calls < MaxLoopCalls
    /\ result' = [result EXCEPT
           !.pc = "walk",
           !.calls = @ + 1,
           !.start = StartCursor(result.st, result.day),
           !.i = StartCursor(result.st, result.day),
           !.seen = StartSeen(result.st, result.day),
           !.picks = << >>,
           !.loops = 0,
           !.drawn = 0]
    /\ LoopFrame

\* One iteration of the for loop.
walkStep ==
    /\ result.pc = "walk"
    /\ result.loops < 2 * args.P
    /\ Len(result.picks) < args.n
    /\ LET p   == LoopSorted[(result.i % args.P) + 1]
           key == KeyOf(p)
           hit == ~Includes(result.seen, key)
       IN  result' = [result EXCEPT
               !.picks = IF hit THEN Append(@, p) ELSE @,
               !.seen = Trim(IF hit THEN Append(@, key) ELSE @, args.P),
               !.i = NextCursor(@, args.P),
               !.loops = @ + 1]
    /\ LoopFrame

\* The loop is left: st.i = i; st.seen = seen; st.t = Date.now();
\* saveRotation(st); then the padding loop when picks are missing.
walkEnd ==
    /\ result.pc = "walk"
    /\ ~(result.loops < 2 * args.P /\ Len(result.picks) < args.n)
    /\ result' = [result EXCEPT
           !.st = [dayKey |-> result.day, seen |-> result.seen,
                   i |-> result.i, t |-> result.calls],
           !.pc = IF Len(result.picks) < args.n THEN "pad" ELSE "done"]
    /\ LoopFrame

\* What an iteration of the while loop leaves, p drawn and picks the list
\* after the push, if any.
AfterDraw(k, picks) ==
    [result EXCEPT
        !.drawn = k,
        !.picks = picks,
        !.pc = IF PadBreaks(picks, args.P) \/ Len(picks) >= args.n
               THEN "done" ELSE "pad"]

\* An iteration of the while loop that draws a player not yet picked.
padFresh ==
    /\ result.pc = "pad"
    /\ \E k \in 1 .. args.P :
           /\ NotPicked(result.picks, LoopSorted[k])
           /\ result' = AfterDraw(k, Append(result.picks, LoopSorted[k]))
    /\ LoopFrame

\* An iteration of the while loop that draws a player picked before.
padStale ==
    /\ result.pc = "pad"
    /\ \E k \in 1 .. args.P :
           /\ ~NotPicked(result.picks, LoopSorted[k])
           /\ result' = AfterDraw(k, result.picks)
    /\ LoopFrame

\* Midnight passes between two calls.
loopNextDay ==
    /\ result.pc \in {"idle", "done"}
    /\ result.day < MaxLoopDay
    /\ result' = [result EXCEPT !.day = @ + 1]
    /\ LoopFrame

NextPickLoop ==
    \/ pickEnter
    \/ walkStep
    \/ walkEnd
    \/ padFresh
    \/ padStale
    \/ loopNextDay

SpecPickLoop == InitPickLoop /\ [][NextPickLoop]_vars

\* The event loop runs a call to its end. Math.random() gives every player
\* of the pool a chance at each draw: a draw that can give a player not yet
\* picked at every iteration gives one at some iteration.
SpecPickLoopFair ==
    /\ SpecPickLoop
    /\ WF_vars(walkStep)
    /\ WF_vars(walkEnd)
    /\ WF_vars(padFresh \/ padStale)
    /\ SF_vars(padFresh)

\* return picks.slice(0, n)
Returned_picks == Take(result.picks, args.n)

----------------------------------------------------------------------------
(* The slide timer and the refresh interval                                *)
(*                                                                         *)
(* SpecSlides follows the page once init has loaded and rendered without   *)
(* an error: the slideshow with its timeout, and the refresh interval with *)
(* the loadAllData calls it starts. `args` is the page (how many .slide    *)
(* elements, and the data-seconds of each, 0 for none); `result` holds     *)
(* STATE.currentSlide, STATE.slideTimer (null, or the timeout with the     *)
(* number setTimeout gave it and its delay), the interval init registered, *)
(* the loadAllData calls made and in flight, and the renderAll calls made. *)
(* Timers fire in any order; how long a callback runs is not modelled.     *)
(***************************************************************************)

MaxSlides == 3
MaxAdvances == 4
MaxRefreshes == 3
MaxInFlight == 2

\* CONFIG.defaultSlideTime / 1000
DefaultSlideSeconds == 18

\* The data-seconds a slide may carry: none, or 20.
SlideSeconds == {0, 20}

NoTimer == [armed |-> FALSE, id |-> 0, seconds |-> 0]

\* parseInt(current.dataset.seconds, 10) || (CONFIG.defaultSlideTime / 1000)
SecondsOf(index) ==
    IF args.seconds[index + 1] # 0 THEN args.seconds[index + 1]
    ELSE DefaultSlideSeconds

\* showSlide(index) on the page r: the slide made active, the timeout cleared
\* and set again.
showSlide(r, index) ==
    [r EXCEPT !.active = index,
              !.slideTimer = [armed |-> TRUE, id |-> r.slideTimer.id + 1,
                              seconds |-> SecondsOf(index)]]

\* startSlideshow() on the page r.
startSlideshowOn(r) ==
    IF args.slides = 0 THEN r
    ELSE showSlide([r EXCEPT !.currentSlide = 0], 0)

\* A renderAll() that starts the slideshow again.
renderAllRestarting(r) ==
    startSlideshowOn([r EXCEPT !.renders = @ + 1])

\* renderAll() on the page r.
renderAllOn(r) == [r EXCEPT !.renders = @ + 1]

\* The page when init's loadAllData() has returned: STATE as declared.
PageLoaded ==
    [ currentSlide |-> 0, active |-> 0, slideTimer |-> NoTimer,
      interval |-> [registered |-> FALSE, every |-> 0],
      calls |-> 1, inFlight |-> 0, renders |-> 0 ]

InitSlides ==
    /\ game = CHOOSE g \in GameRecords : WellFormed(g)
    /\ ret = NoCall
    /\ DisplayIdle
    /\ RotationIdle
    /\ LoadIdle
    /\ BootIdle
    /\ \E n \in 0 .. MaxSlides :
           \E secs \in [1 .. n -> SlideSeconds] :
               args = [slides |-> n, seconds |-> secs]
    /\ result = PageLoaded

SlidesFrame == UNCHANGED <<gameVars, displayVars, rotVars, loadVars, bootVars, args>>

\* init() after its await: renderAll(); startSlideshow(); setInterval(...).
slidesInit ==
    /\ ~result.interval.registered
    /\ result' = [startSlideshowOn(renderAllOn(result)) EXCEPT
                     !.interval = [registered |-> TRUE, every |-> RefreshInterval]]
    /\ SlidesFrame

\* The timeout of showSlide fires.
slideTimerFires ==
    /\ result.slideTimer.armed
    /\ result.slideTimer.id < MaxAdvances
    /\ LET next == (result.currentSlide + 1) % args.slides
       IN  result' = showSlide([result EXCEPT !.currentSlide = next], next)
    /\ SlidesFrame

\* The refresh interval fires: its callback calls loadAllData().
refreshFires ==
    /\ result.interval.registered
    /\ result.calls < MaxRefreshes + 1
    /\ result.inFlight < MaxInFlight
    /\ result' = [result EXCEPT !.calls = @ + 1, !.inFlight = @ + 1]
    /\ SlidesFrame

\* A loadAllData() of the interval callback returns, and renderAll() runs.
refreshReturns ==
    /\ result.inFlight > 0
    /\ result' = renderAllOn([result EXCEPT !.inFlight = @ - 1])
    /\ SlidesFrame

NextSlides ==
    \/ slidesInit
    \/ slideTimerFires
    \/ refreshFires
    \/ refreshReturns

SpecSlides == InitSlides /\ [][NextSlides]_vars

\* What the slideshow owns, and what the refresh owns.
SlideSide(r) == <<r.currentSlide, r.active, r.slideTimer>>
RefreshSide(r) == <<r.calls, r.inFlight, r.renders, r.interval>>

(* C28: periodic data refresh and slide rotation are independent: a refresh *)
(* (load followed by re-render) never changes the current slide index and   *)
(* never cancels or re-arms the slide timer, and a slide advance never      *)
(* triggers a fetch or delays the refresh interval.                         *)
C28_RefreshAndSlidesIndependent ==
    [][ result.interval.registered =>
            /\ RefreshSide(result') # RefreshSide(result) =>
                   SlideSide(result') = SlideSide(result)
            /\ SlideSide(result') # SlideSide(result) =>
                   RefreshSide(result') = RefreshSide(result)
      ]_vars

\* A refresh has returned and rendered while the slideshow was on a later
\* slide with its timeout armed, and another load is in flight.
C28_Witness ==
    /\ result.interval.registered
    /\ result.renders >= 2
    /\ result.currentSlide > 0
    /\ result.slideTimer.armed
    /\ result.slideTimer.seconds = DefaultSlideSeconds
    /\ result.inFlight > 0

=============================================================================
